---- MODULE Spec2Model ----
(***************************************************************************)
(* A model of the notes-mcp service core: script synthesis, the osascript  *)
(* executor, the error classifier and the result parsers.                  *)
(*                                                                         *)
(* Text is modelled as a sequence of one-character strings, so that        *)
(* escaping, splitting and trimming are computed as the Go code computes   *)
(* them. Bridge diagnostics are modelled as sequences of word tokens.      *)
(***************************************************************************)
EXTENDS Integers, Sequences, FiniteSets, TLC

VARIABLES
    text,       \* escaping: the caller's raw text
    escaped,    \* escaping: what the last escaping function returned
    fmtOp,      \* escaping: which function produced `escaped`
    stderr,     \* classifier: diagnostics handed to DetectError
    execErr,    \* classifier: execution error handed to DetectError
    detected,   \* classifier: what DetectError returned
    clock,      \* executor: wall-clock time, in seconds
    ex,         \* executor: the OSAScriptExecutor and its Execute call
    call,       \* service: the operation called, its arguments and the bridge's answer
    scripts,    \* service: the scripts handed to Execute, in order
    ret,        \* service: what the operation returned
    service,    \* concurrency: the fields of the service and of its executor
    threads,    \* concurrency: the call each goroutine is making
    buffers,    \* concurrency: the output buffers of the Execute calls
    environ,    \* system: the value of NOTES_MCP_TIMEOUT in the environment
    file,       \* system: the attachment file on disk
    att         \* system: the GetAttachmentContent call in progress

vars ==
    <<text, escaped, fmtOp, stderr, execErr, detected, clock, ex, call, scripts, ret,
      service, threads, buffers, environ, file, att>>

escVars == <<text, escaped, fmtOp>>
clsVars == <<stderr, execErr, detected>>
exVars == <<clock, ex>>
svcVars == <<call, scripts, ret>>
conVars == <<service, threads, buffers>>
sysVars == <<environ, file, att>>

-----------------------------------------------------------------------------
(* Bounds *)

MaxTextLen == 4      \* longest raw text given to the escaping functions
MaxDiagLen == 4      \* most tokens in a diagnostics text
MaxNeed == 3         \* longest run time of a short script, in seconds
MaxTimeout == 2      \* longest timeout an executor is constructed with
MaxArgLen == 2       \* longest title, query or name a caller passes
MaxWall == 3         \* latest wall-clock second of a date filter or a note
MaxNameLen == 4      \* longest note or folder name in the account
MaxOutLen == 5       \* longest arbitrary bridge output
MaxLimit == 2        \* largest limit asked of GetRecentNotes
MaxFileSize == 3     \* largest size limit of an attachment read, in bytes
MaxHtmlLen == 3      \* most tokens in an HTML body

-----------------------------------------------------------------------------
(* Characters and Go's strings package *)

BS == "\\"
QUOTE == "\""
NL == "\n"
SP == " "

Min(a, b) == IF a <= b THEN a ELSE b

SeqsUpTo(S, n) == UNION {[1..k -> S] : k \in 0..n}

\* strings.Index: the first position where sub occurs in s, 0 when it does not
Index(s, sub) ==
    LET hits == {i \in 1..(Len(s) - Len(sub) + 1) : SubSeq(s, i, i + Len(sub) - 1) = sub}
    IN IF hits = {} THEN 0 ELSE CHOOSE i \in hits : \A j \in hits : i <= j

Contains(s, sub) == Index(s, sub) # 0

\* strings.ReplaceAll for a non-empty old: non-overlapping, left to right
RECURSIVE ReplaceAll(_, _, _)
ReplaceAll(s, old, new) ==
    LET i == Index(s, old)
    IN IF i = 0 THEN s
       ELSE SubSeq(s, 1, i - 1) \o new
            \o ReplaceAll(SubSeq(s, i + Len(old), Len(s)), old, new)

\* strings.Split for a non-empty separator, scanning left to right
RECURSIVE SplitScan(_, _)
SplitScan(s, sep) ==
    LET i == Index(s, sep)
    IN IF i = 0 THEN <<s>>
       ELSE <<SubSeq(s, 1, i - 1)>> \o SplitScan(SubSeq(s, i + Len(sep), Len(s)), sep)

\* strings.Split. A long text is cut in two at a place no occurrence of the
\* separator lies across, where the left-to-right scan of the whole text
\* and the scans of the two halves find the same separators; the last
\* segment of the left half and the first of the right half are one segment.
RECURSIVE Split(_, _)
Split(s, sep) ==
    LET n == Len(s)
        l == Len(sep)
        half == n \div 2
        across(m) == \E p \in (m - l + 2)..m :
                         p >= 1 /\ p + l - 1 <= n /\ SubSeq(s, p, p + l - 1) = sep
        cuts == {m \in (half - l)..(half + l) : m >= 1 /\ m < n /\ ~across(m)}
        mid == CHOOSE m \in cuts : \A k \in cuts : m <= k
        a == Split(SubSeq(s, 1, mid), sep)
        b == Split(SubSeq(s, mid + 1, n), sep)
    IN IF n <= 32 \/ cuts = {} THEN SplitScan(s, sep)
       ELSE SubSeq(a, 1, Len(a) - 1) \o <<a[Len(a)] \o b[1]>> \o Tail(b)

IsSpace(c) == c \in {SP, NL, "\t", "\r"}

\* strings.TrimSpace
TrimSpace(s) ==
    LET keep == {i \in 1..Len(s) : ~IsSpace(s[i])}
    IN IF keep = {} THEN <<>>
       ELSE SubSeq(s, CHOOSE i \in keep : \A j \in keep : i <= j,
                      CHOOSE i \in keep : \A j \in keep : i >= j)

-----------------------------------------------------------------------------
(* Escaping and formatting *)

\* A plausible slip: quotes escaped before backslashes
escapeQuotesFirst(input) ==
    ReplaceAll(ReplaceAll(input, <<QUOTE>>, <<BS, QUOTE>>), <<BS>>, <<BS, BS>>)

escapeForAppleScript(input) ==
    LET result == ReplaceAll(input, <<BS>>, <<BS, BS>>)
    IN ReplaceAll(result, <<QUOTE>>, <<BS, QUOTE>>)

\* A plausible slip: strings.Replace with a count of one
formatContentFirstBreakOnly(content) ==
    LET e == escapeForAppleScript(content)
        i == Index(e, <<NL>>)
    IN IF i = 0 THEN e
       ELSE SubSeq(e, 1, i - 1) \o <<"<", "b", "r", ">">> \o SubSeq(e, i + 1, Len(e))

formatContent(content) ==
    IF content = <<>> THEN <<>>
    ELSE ReplaceAll(escapeForAppleScript(content), <<NL>>, <<"<", "b", "r", ">">>)

TextChars == {"a", QUOTE, BS, NL}
Texts == SeqsUpTo(TextChars, MaxTextLen)

EscIdle ==
    /\ text = <<>>
    /\ escaped = <<>>
    /\ fmtOp = "none"

EscInit ==
    /\ text \in Texts
    /\ escaped = <<>>
    /\ fmtOp = "none"

Escape ==
    /\ fmtOp = "none"
    /\ escaped' = escapeForAppleScript(text)
    /\ fmtOp' = "escape"
    /\ UNCHANGED text

Format ==
    /\ fmtOp = "none"
    /\ escaped' = formatContent(text)
    /\ fmtOp' = "format"
    /\ UNCHANGED text

-----------------------------------------------------------------------------
(* The script interpreter's reading of a double-quoted literal body *)

\* positions of s at which an escape sequence starts, scanning left to right
RECURSIVE EscapeStarts(_, _)
EscapeStarts(s, i) ==
    IF i > Len(s) THEN {}
    ELSE IF s[i] = BS THEN {i} \cup EscapeStarts(s, i + 2)
    ELSE EscapeStarts(s, i + 1)

\* a quote of s that no backslash escapes
HasUnescapedQuote(s) ==
    \E i \in 1..Len(s) : s[i] = QUOTE /\ (i - 1) \notin EscapeStarts(s, 1)

\* a backslash that ends s with nothing after it to escape
HasDanglingBackslash(s) == Len(s) \in EscapeStarts(s, 1)

\* decoding: backslash-backslash is a backslash, backslash-quote is a quote
RECURSIVE Unescape(_)
Unescape(s) ==
    IF s = <<>> THEN <<>>
    ELSE IF Head(s) = BS /\ Len(s) >= 2 /\ s[2] \in {BS, QUOTE}
         THEN <<s[2]>> \o Unescape(SubSeq(s, 3, Len(s)))
    ELSE <<Head(s)>> \o Unescape(Tail(s))

-----------------------------------------------------------------------------
(* Errors: an error is the chain of its messages, outermost first; the     *)
(* error wrapped by %w is the rest of the chain.                           *)

DeadlineExceeded == <<"context deadline exceeded">>
Canceled == <<"context canceled">>
ExitStatus1 == <<"exit status 1">>
SignalKilled == <<"signal: killed">>

ErrNoteNotFound == <<"note not found">>
ErrFolderNotFound == <<"folder not found">>
ErrNotesAppNotRunning == <<"Apple Notes app not running">>
ErrPermissionDenied == <<"permission denied to access Notes">>
ErrScriptTimeout == <<"AppleScript execution timeout">>
ErrInvalidInput == <<"invalid input parameters">>

NoError == <<>>

\* errors.Is: target is err or one of the errors err wraps
ErrorsIs(err, target) ==
    \E i \in 1..Len(err) : SubSeq(err, i, Len(err)) = target

\* fmt.Errorf("msg: %w", err)
Wrap(msg, err) == <<msg>> \o err

-----------------------------------------------------------------------------
(* Error classifier. A diagnostics text is a sequence of word tokens; two  *)
(* neighbouring words are one space apart and the token NL is a line break *)

DiagWords == {"-1728", "-1743", "event", "not", "handled", "Allowed", "Note",
              "folder", "found", NL}
Diagnostics == SeqsUpTo(DiagWords, MaxDiagLen)
ExecErrors == {ExitStatus1, DeadlineExceeded, Canceled, SignalKilled}

\* strings.ToLower
ToLowerWord(w) ==
    CASE w = "Allowed" -> "allowed"
      [] w = "Note" -> "note"
      [] OTHER -> w

ToLower(s) == [i \in DOMAIN s |-> ToLowerWord(s[i])]

\* (?i)<word>.*?\bnot\s+found\b : the word, then anything but a line break,
\* then "not", white space, "found"
MatchNotFound(s, word) ==
    \E i, j, k \in 1..Len(s) :
        /\ i < j /\ j < k
        /\ ToLowerWord(s[i]) = word
        /\ \A m \in (i + 1)..(j - 1) : s[m] # NL
        /\ ToLowerWord(s[j]) = "not"
        /\ \A m \in (j + 1)..(k - 1) : s[m] = NL
        /\ ToLowerWord(s[k]) = "found"

noteNotFoundPattern(s) == MatchNotFound(s, "note")
folderNotFoundPattern(s) == MatchNotFound(s, "folder")

IsAppNotRunningText(s) ==
    Contains(ToLower(s), <<"-1728">>) \/ Contains(ToLower(s), <<"event", "not", "handled">>)

IsPermissionText(s) ==
    Contains(ToLower(s), <<"not", "allowed">>) \/ Contains(ToLower(s), <<"-1743">>)

\* A plausible slip: the order of the doc comment, note-not-found before
\* permission-denied
DetectErrorNoteFirst(diag, err) ==
    IF ErrorsIs(err, DeadlineExceeded) THEN ErrScriptTimeout
    ELSE IF diag = <<>> THEN err
    ELSE IF IsAppNotRunningText(diag) THEN ErrNotesAppNotRunning
    ELSE IF noteNotFoundPattern(diag) THEN ErrNoteNotFound
    ELSE IF IsPermissionText(diag) THEN ErrPermissionDenied
    ELSE IF folderNotFoundPattern(diag) THEN ErrFolderNotFound
    ELSE err

\* A plausible slip: the deadline looked at last, after the diagnostics
DetectErrorTextFirst(diag, err) ==
    IF diag # <<>> /\ IsAppNotRunningText(diag) THEN ErrNotesAppNotRunning
    ELSE IF diag # <<>> /\ IsPermissionText(diag) THEN ErrPermissionDenied
    ELSE IF diag # <<>> /\ noteNotFoundPattern(diag) THEN ErrNoteNotFound
    ELSE IF diag # <<>> /\ folderNotFoundPattern(diag) THEN ErrFolderNotFound
    ELSE IF ErrorsIs(err, DeadlineExceeded) THEN ErrScriptTimeout
    ELSE err

DetectError(diag, err) ==
    IF ErrorsIs(err, DeadlineExceeded) THEN ErrScriptTimeout
    ELSE IF diag = <<>> THEN err
    ELSE IF IsAppNotRunningText(diag) THEN ErrNotesAppNotRunning
    ELSE IF IsPermissionText(diag) THEN ErrPermissionDenied
    ELSE IF noteNotFoundPattern(diag) THEN ErrNoteNotFound
    ELSE IF folderNotFoundPattern(diag) THEN ErrFolderNotFound
    ELSE err

ClsIdle ==
    /\ stderr = <<>>
    /\ execErr = NoError
    /\ detected = NoError

ClsInit ==
    /\ stderr \in Diagnostics
    /\ execErr \in ExecErrors
    /\ detected = NoError

\* a service operation hands a failed Execute to DetectError
Classify ==
    /\ execErr # NoError
    /\ detected = NoError
    /\ detected' = DetectError(stderr, execErr)
    /\ UNCHANGED <<stderr, execErr>>

-----------------------------------------------------------------------------
(* Bridge executor: OSAScriptExecutor.Execute runs osascript under         *)
(* context.WithTimeout(ctx, e.timeout) and exec.CommandContext.            *)

DefaultTimeout == 10
NoDeadline == -1

\* NewOSAScriptExecutor: a timeout of 0 or less becomes 10 seconds
NewOSAScriptExecutor(timeout) ==
    IF timeout <= 0 THEN DefaultTimeout ELSE timeout

MaxClock == DefaultTimeout + 2
Needs == 0..MaxNeed \cup {DefaultTimeout + 1}
ParentDeadlines == {NoDeadline} \cup 1..MaxNeed
ScriptDiags == {<<>>, <<"Note", "not", "found">>}

\* A plausible slip: the configured timeout alone, the caller's deadline ignored
WithTimeoutIgnoringParent(parent, now, timeout) == now + timeout

\* context.WithTimeout: the earlier of the parent's deadline and now + timeout
WithTimeout(parent, now, timeout) ==
    IF parent # NoDeadline /\ parent < now + timeout THEN parent ELSE now + timeout

\* A plausible slip: a context that learns of its deadline alone, a
\* cancellation by the caller not passed on to it
CtxErrDeadlineOnly(e, now) ==
    IF now >= e.deadline THEN DeadlineExceeded ELSE NoError

\* ctx.Err() of the derived context
CtxErr(e, now) ==
    IF e.cancelled THEN Canceled
    ELSE IF now >= e.deadline THEN DeadlineExceeded
    ELSE NoError

ExIdle ==
    /\ clock = 0
    /\ ex = [phase |-> "idle", timeout |-> DefaultTimeout, parent |-> NoDeadline,
             cancelled |-> FALSE, start |-> 0, deadline |-> 0, need |-> 0,
             exit |-> 0, diag |-> <<>>, proc |-> "none", err |-> NoError,
             out |-> <<>>]

ExInit ==
    /\ clock = 0
    /\ \E t \in 0..MaxTimeout :
         ex = [phase |-> "idle", timeout |-> NewOSAScriptExecutor(t),
               parent |-> NoDeadline, cancelled |-> FALSE, start |-> 0,
               deadline |-> 0, need |-> 0, exit |-> 0, diag |-> <<>>,
               proc |-> "none", err |-> NoError, out |-> <<>>]

\* time passes; a due timer or a finished process is handled first
Tick ==
    /\ clock < MaxClock
    /\ ~(ex.proc = "running"
         /\ (clock >= ex.deadline \/ clock >= ex.start + ex.need))
    /\ clock' = clock + 1
    /\ UNCHANGED <<ex, clsVars>>

\* Execute is entered: the context is derived and cmd.Run starts osascript,
\* unless the context is already done, and then Start returns ctx.Err()
ExecuteCall ==
    /\ ex.phase = "idle"
    /\ \E parent \in ParentDeadlines, pc \in BOOLEAN, need \in Needs,
          exit \in {0, 1}, diag \in ScriptDiags :
         LET e == [ex EXCEPT !.parent = parent, !.cancelled = pc, !.start = clock,
                             !.deadline = WithTimeout(parent, clock, ex.timeout),
                             !.need = need, !.exit = exit, !.diag = diag]
         IN IF CtxErr(e, clock) # NoError
            THEN /\ ex' = [e EXCEPT !.phase = "returned", !.err = CtxErr(e, clock)]
                 /\ stderr' = <<>>
                 /\ execErr' = CtxErr(e, clock)
            ELSE /\ ex' = [e EXCEPT !.phase = "running", !.proc = "running"]
                 /\ UNCHANGED <<stderr, execErr>>
    /\ UNCHANGED <<clock, detected>>

\* the caller cancels its context while the script runs
ParentCancel ==
    /\ ex.phase = "running"
    /\ ~ex.cancelled
    /\ ex' = [ex EXCEPT !.cancelled = TRUE]
    /\ UNCHANGED <<clock, clsVars>>

\* the script ends by itself and cmd.Run returns nil or its exit status
ScriptExit ==
    /\ ex.proc = "running"
    /\ CtxErr(ex, clock) = NoError
    /\ clock >= ex.start + ex.need
    /\ LET err == IF ex.exit = 0 THEN NoError ELSE ExitStatus1
       IN /\ ex' = [ex EXCEPT !.phase = "returned", !.proc = "exited", !.err = err]
          /\ stderr' = ex.diag
          /\ execErr' = err
    /\ UNCHANGED <<clock, detected>>

\* the derived context is done while the script runs: exec kills osascript and
\* cmd.Run returns the wait status of the killed process
KillOnDone ==
    /\ ex.proc = "running"
    /\ CtxErr(ex, clock) # NoError
    /\ \E sofar \in {<<>>, ex.diag} :
         /\ ex' = [ex EXCEPT !.phase = "returned", !.proc = "killed",
                             !.err = SignalKilled]
         /\ stderr' = sofar
         /\ execErr' = SignalKilled
    /\ UNCHANGED <<clock, detected>>

\* the script had just ended with status 0 when the kill was sent: cmd.Run
\* returns ctx.Err()
ExitRacesKill ==
    /\ ex.proc = "running"
    /\ CtxErr(ex, clock) # NoError
    /\ clock >= ex.start + ex.need
    /\ ex.exit = 0
    /\ ex' = [ex EXCEPT !.phase = "returned", !.proc = "exited",
                        !.err = CtxErr(ex, clock)]
    /\ stderr' = ex.diag
    /\ execErr' = CtxErr(ex, clock)
    /\ UNCHANGED <<clock, detected>>

-----------------------------------------------------------------------------
(* Script text. A script is a sequence of lines and a line a sequence of   *)
(* pieces: template text, a double quote of the template, or a value that  *)
(* fmt.Sprintf put in the place of a %s.                                    *)

Piece(k, s, from, val, wall) == <<[k |-> k, s |-> s, from |-> from, val |-> val, wall |-> wall]>>
L(s) == Piece("lit", s, "", <<>>, 0)
Qt == Piece("q", "", "", <<>>, 0)
\* a %s between the template's double quotes
Str(from, val) == Qt \o Piece("arg", "", from, val, 0) \o Qt
\* a formatted date between the template's double quotes
DateStr(from, wall) == Qt \o Piece("date", "", from, <<>>, wall) \o Qt

iCloudAccount == <<"i", "C", "l", "o", "u", "d">>

TellApp == L("tell application \"Notes\"")
TellAccount == L("tell account ") \o Str("account", iCloudAccount)
EndTell == L("end tell")
EndRepeat == L("end repeat")
EndIf == L("end if")
NextRepeat == L("next repeat")

Delimiter == <<"|", "|", "|">>
CommaSpace == <<",", SP>>

\* the four lines that join a list with "|||" and return it
JoinAndReturn(list) ==
    << L("set oldDelimiters to AppleScript's text item delimiters"),
       L("set AppleScript's text item delimiters to ") \o Str("delimiter", Delimiter),
       L("set result to " \o list \o " as string"),
       L("set AppleScript's text item delimiters to oldDelimiters"),
       L("return result") >>

InAccount(lines) == <<TellApp, TellAccount>> \o lines \o <<EndTell, EndTell>>

CreateNoteScript(title, content) ==
    LET formattedContent == formatContent(content)
        safeTitle == escapeForAppleScript(title)
    IN InAccount(<< L("make new note with properties {name:") \o Str("title", safeTitle)
                    \o L(", body:") \o Str("content", formattedContent) \o L("}") >>)

SearchNotesScript(query) ==
    LET safeQuery == escapeForAppleScript(query)
    IN InAccount(<< L("set noteList to {}"),
                    L("set foundNotes to notes where name contains ") \o Str("query", safeQuery),
                    L("repeat with n in foundNotes"),
                    L("set end of noteList to name of n"),
                    EndRepeat >> \o JoinAndReturn("noteList"))

GetNoteContentScript(title) ==
    LET safeTitle == escapeForAppleScript(title)
    IN InAccount(<< L("get body of note ") \o Str("title", safeTitle) >>)

UpdateNoteScript(title, content) ==
    LET formattedContent == formatContent(content)
        safeTitle == escapeForAppleScript(title)
    IN InAccount(<< L("set body of note ") \o Str("title", safeTitle)
                    \o L(" to ") \o Str("content", formattedContent) >>)

\* A plausible slip: the title put into the script as the caller gave it
DeleteNoteScriptRaw(title) ==
    InAccount(<< L("delete note ") \o Str("title", title) >>)

DeleteNoteScript(title) ==
    LET safeTitle == escapeForAppleScript(title)
    IN InAccount(<< L("delete note ") \o Str("title", safeTitle) >>)

ListFoldersScript ==
    InAccount(<< L("set folderList to {}"),
                 L("set allFolders to folders"),
                 L("repeat with f in allFolders"),
                 L("set end of folderList to name of f"),
                 EndRepeat >> \o JoinAndReturn("folderList"))

GetRecentNotesScript ==
    InAccount(<< L("get name of notes") >>)

GetNotesInFolderScript(folder) ==
    LET safeFolder == escapeForAppleScript(folder)
    IN InAccount(<< L("get name of notes in folder ") \o Str("folder", safeFolder) >>)

\* A plausible slip: the folder made first and moved under its parent after
CreateFolderScriptMakeFirst(name, parentFolder) ==
    LET safeName == escapeForAppleScript(name)
    IN IF parentFolder = <<>>
       THEN InAccount(<< L("make new folder with properties {name:")
                         \o Str("name", safeName) \o L("}") >>)
       ELSE LET safeParent == escapeForAppleScript(parentFolder)
            IN InAccount(<< L("make new folder with properties {name:")
                            \o Str("name", safeName) \o L("}"),
                            L("set parentFld to folder ") \o Str("parent", safeParent),
                            L("move result to parentFld") >>)

CreateFolderScript(name, parentFolder) ==
    LET safeName == escapeForAppleScript(name)
    IN IF parentFolder = <<>>
       THEN InAccount(<< L("make new folder with properties {name:")
                         \o Str("name", safeName) \o L("}") >>)
       ELSE LET safeParent == escapeForAppleScript(parentFolder)
            IN InAccount(<< L("set parentFld to folder ") \o Str("parent", safeParent),
                            L("make new folder with properties {name:")
                            \o Str("name", safeName) \o L(", container:parentFld}") >>)

MoveNoteScript(noteTitle, targetFolder) ==
    LET safeTitle == escapeForAppleScript(noteTitle)
        safeFolder == escapeForAppleScript(targetFolder)
    IN InAccount(<< L("set targetFld to folder ") \o Str("folder", safeFolder),
                    L("set theNote to note ") \o Str("title", safeTitle),
                    L("move theNote to targetFld") >>)

GetFolderHierarchyScript ==
    InAccount(<< L("on getFolderInfo(fld)"),
                 L("set folderInfo to {name:(name of fld), shared:(shared of fld), noteCount:(count of notes in fld), children:{}}"),
                 L("set childFolders to {}"),
                 L("repeat with childFld in (folders of fld)"),
                 L("copy (my getFolderInfo(childFld)) to end of childFolders"),
                 EndRepeat,
                 L("set children of folderInfo to childFolders"),
                 L("return folderInfo"),
                 L("end getFolderInfo"),
                 L("set rootInfo to {name:") \o Str("account", iCloudAccount)
                 \o L(", shared:false, noteCount:0, children:{}}"),
                 L("set allFolders to {}"),
                 L("repeat with fld in folders"),
                 L("copy (my getFolderInfo(fld)) to end of allFolders"),
                 EndRepeat,
                 L("set children of rootInfo to allFolders"),
                 L("return rootInfo") >>)

ExportNoteTextScript(noteTitle) ==
    LET safeTitle == escapeForAppleScript(noteTitle)
    IN InAccount(<< L("get plaintext of note ") \o Str("title", safeTitle) >>)

GetNoteMetadataScript(title) ==
    LET safeTitle == escapeForAppleScript(title)
    IN InAccount(<< L("set theNote to note ") \o Str("title", safeTitle),
                    L("{id:(id of theNote as text), name:(name of theNote), creation date:(creation date of theNote), modification date:(modification date of theNote), container:(name of container of theNote), shared:(shared of theNote), password protected:(password protected of theNote)}") >>)

GetNoteAttachmentsScript(noteTitle) ==
    LET safeTitle == escapeForAppleScript(noteTitle)
    IN InAccount(<< L("set theNote to note ") \o Str("title", safeTitle),
                    L("set attList to attachments of theNote"),
                    L("set result to \"\""),
                    L("repeat with att in attList"),
                    L("set attInfo to {id:(id of att as text), name:(name of att), contents:(contents of att), creation date:(creation date of att), modification date:(modification date of att)}"),
                    L("set result to result & attInfo & linefeed"),
                    EndRepeat,
                    L("return result") >>)

-----------------------------------------------------------------------------
(* Search scripts *)

SearchInTitle == "title"
SearchInBody == "body"
SearchInBoth == "both"

NoTime == [set |-> FALSE, wall |-> 0, nsec |-> 0]

\* t.Format("Monday, January 2, 2006 at 3:04:05 PM"): the wall-clock second,
\* the fraction of the second dropped
formatAppleScriptDate(t) == t.wall

DateCheck(from, cmp, t) ==
    << L("if modification date of n " \o cmp \o " date ")
       \o DateStr(from, formatAppleScriptDate(t)) \o L(" then"),
       NextRepeat,
       EndIf >>

\* A plausible slip: the candidates taken by folder alone and the title
\* tested inside the loop, after the date checks
buildTitleSearchPredicateLast(safeQuery, opts) ==
    IF opts.Folder = <<>> /\ ~opts.DateFrom.set /\ ~opts.DateTo.set
    THEN InAccount(<< L("set output to {}"),
                      L("set foundNotes to notes where name contains ") \o Str("query", safeQuery),
                      L("repeat with n in foundNotes"),
                      L("set end of output to name of n"),
                      EndRepeat >> \o JoinAndReturn("output"))
    ELSE << TellApp, TellAccount, L("set matchedNotes to {}") >>
         \o (IF opts.Folder # <<>>
             THEN << L("set targetFolder to folder ")
                     \o Str("folder", escapeForAppleScript(opts.Folder)),
                     L("set candidateNotes to notes of targetFolder") >>
             ELSE << L("set candidateNotes to notes") >>)
         \o << L("repeat with n in candidateNotes") >>
         \o (IF opts.DateFrom.set THEN DateCheck("from", "<", opts.DateFrom) ELSE <<>>)
         \o (IF opts.DateTo.set THEN DateCheck("to", ">", opts.DateTo) ELSE <<>>)
         \o << L("if name of n contains ") \o Str("query", safeQuery) \o L(" then"),
                L("copy name of n to end of matchedNotes"),
                EndIf,
                EndRepeat >>
         \o JoinAndReturn("matchedNotes") \o <<EndTell, EndTell>>

buildTitleSearch(safeQuery, opts) ==
    IF opts.Folder = <<>> /\ ~opts.DateFrom.set /\ ~opts.DateTo.set
    THEN InAccount(<< L("set output to {}"),
                      L("set foundNotes to notes where name contains ") \o Str("query", safeQuery),
                      L("repeat with n in foundNotes"),
                      L("set end of output to name of n"),
                      EndRepeat >> \o JoinAndReturn("output"))
    ELSE LET head == << TellApp, TellAccount, L("set matchedNotes to {}") >>
             cand == IF opts.Folder # <<>>
                     THEN << L("set targetFolder to folder ")
                             \o Str("folder", escapeForAppleScript(opts.Folder)),
                             L("set candidateNotes to notes of targetFolder where name contains ")
                             \o Str("query", safeQuery) >>
                     ELSE << L("set candidateNotes to notes where name contains ")
                             \o Str("query", safeQuery) >>
             loop == IF opts.DateFrom.set \/ opts.DateTo.set
                     THEN << L("repeat with n in candidateNotes") >>
                          \o (IF opts.DateFrom.set THEN DateCheck("from", "<", opts.DateFrom) ELSE <<>>)
                          \o (IF opts.DateTo.set THEN DateCheck("to", ">", opts.DateTo) ELSE <<>>)
                          \o << L("copy name of n to end of matchedNotes"), EndRepeat >>
                          \o JoinAndReturn("matchedNotes")
                     ELSE << L("repeat with n in candidateNotes"),
                             L("copy name of n to end of matchedNotes"),
                             EndRepeat >> \o JoinAndReturn("matchedNotes")
         IN head \o cand \o loop \o <<EndTell, EndTell>>

buildBodySearch(safeQuery, opts) ==
    InAccount(<< L("set matchedNotes to {}"),
                 L("set allNotes to notes"),
                 L("repeat with n in allNotes"),
                 L("if body of n contains ") \o Str("query", safeQuery) \o L(" then"),
                 L("copy name of n to end of matchedNotes"),
                 EndIf,
                 EndRepeat >> \o JoinAndReturn("matchedNotes"))

buildBothSearch(safeQuery, opts) ==
    InAccount(<< L("set matchedNotes to {}"),
                 L("set allNotes to notes"),
                 L("repeat with n in allNotes"),
                 L("if (name of n contains ") \o Str("query", safeQuery)
                 \o L(") or (body of n contains ") \o Str("query", safeQuery) \o L(") then"),
                 L("copy name of n to end of matchedNotes"),
                 EndIf,
                 EndRepeat >> \o JoinAndReturn("matchedNotes"))

BodyPredicate(safeQuery, searchIn) ==
    IF searchIn = "both"
    THEN << L("if (name of n contains ") \o Str("query", safeQuery)
            \o L(") or (body of n contains ") \o Str("query", safeQuery) \o L(") then"),
            L("copy name of n to end of matchedNotes"),
            EndIf >>
    ELSE << L("if body of n contains ") \o Str("query", safeQuery) \o L(" then"),
            L("copy name of n to end of matchedNotes"),
            EndIf >>

\* A plausible slip: the body predicate emitted ahead of the date checks
buildFilteredBodySearchBodyFirst(safeQuery, searchIn, opts) ==
    << TellApp, TellAccount, L("set matchedNotes to {}") >>
    \o (IF opts.Folder # <<>>
        THEN << L("set targetFolder to folder ")
                \o Str("folder", escapeForAppleScript(opts.Folder)),
                L("set candidateNotes to notes of targetFolder") >>
        ELSE << L("set candidateNotes to notes") >>)
    \o << L("repeat with n in candidateNotes") >>
    \o BodyPredicate(safeQuery, searchIn)
    \o (IF opts.DateFrom.set THEN DateCheck("from", "<", opts.DateFrom) ELSE <<>>)
    \o (IF opts.DateTo.set THEN DateCheck("to", ">", opts.DateTo) ELSE <<>>)
    \o << EndRepeat >> \o JoinAndReturn("matchedNotes") \o <<EndTell, EndTell>>

buildFilteredBodySearch(safeQuery, searchIn, opts) ==
    << TellApp, TellAccount, L("set matchedNotes to {}") >>
    \o (IF opts.Folder # <<>>
        THEN << L("set targetFolder to folder ")
                \o Str("folder", escapeForAppleScript(opts.Folder)),
                L("set candidateNotes to notes of targetFolder") >>
        ELSE << L("set candidateNotes to notes") >>)
    \o << L("repeat with n in candidateNotes") >>
    \o (IF opts.DateFrom.set THEN DateCheck("from", "<", opts.DateFrom) ELSE <<>>)
    \o (IF opts.DateTo.set THEN DateCheck("to", ">", opts.DateTo) ELSE <<>>)
    \o BodyPredicate(safeQuery, searchIn)
    \o << EndRepeat >> \o JoinAndReturn("matchedNotes") \o <<EndTell, EndTell>>

validateSearchIn(searchIn) ==
    IF searchIn # SearchInTitle /\ searchIn # SearchInBody /\ searchIn # SearchInBoth
    THEN <<"invalid SearchIn value">>
    ELSE NoError

\* A plausible slip: a body search with filters sent to the unfiltered scan
buildSearchScriptNoPrefilter(searchIn, opts) ==
    LET safeQuery == escapeForAppleScript(opts.Query)
    IN CASE searchIn = SearchInTitle -> buildTitleSearch(safeQuery, opts)
         [] searchIn = SearchInBody -> buildBodySearch(safeQuery, opts)
         [] searchIn = SearchInBoth -> buildBothSearch(safeQuery, opts)
         [] OTHER -> buildTitleSearch(safeQuery, opts)

buildSearchScript(searchIn, opts) ==
    LET safeQuery == escapeForAppleScript(opts.Query)
        needsFiltering == opts.Folder # <<>> \/ opts.DateFrom.set \/ opts.DateTo.set
        isBodySearch == searchIn = SearchInBody \/ searchIn = SearchInBoth
    IN IF isBodySearch /\ needsFiltering
       THEN buildFilteredBodySearch(safeQuery, searchIn, opts)
       ELSE CASE searchIn = SearchInTitle -> buildTitleSearch(safeQuery, opts)
              [] searchIn = SearchInBody -> buildBodySearch(safeQuery, opts)
              [] searchIn = SearchInBoth -> buildBothSearch(safeQuery, opts)
              [] OTHER -> buildTitleSearch(safeQuery, opts)

-----------------------------------------------------------------------------
(* The bridge: what osascript prints for a list-producing script, run      *)
(* against the notes and folders of the account.                           *)

Starts(line, s) == line # <<>> /\ line[1].k = "lit" /\ line[1].s = s

PiecesOf(line, k) == SelectSeq(line, LAMBDA p : p.k = k)

\* the value of the n-th interpolated string literal of a line, as the
\* interpreter reads it
Literal(line, n) == Unescape(PiecesOf(line, "arg")[n].val)

\* the first line of the script that starts with s, 0 when there is none
LineIdx(script, s) ==
    LET hits == {i \in 1..Len(script) : Starts(script[i], s)}
    IN IF hits = {} THEN 0 ELSE CHOOSE i \in hits : \A j \in hits : i <= j

HasLine(script, s) == LineIdx(script, s) # 0

RECURSIVE Join(_, _)
Join(list, sep) ==
    IF list = <<>> THEN <<>>
    ELSE IF Len(list) = 1 THEN list[1]
    ELSE list[1] \o sep \o Join(Tail(list), sep)

Indexes(s) == [i \in 1..Len(s) |-> i]

\* the notes a script's collection line selects, as indexes into the store
Candidates(script, store) ==
    LET all == Indexes(store.notes)
        folderLine == LineIdx(script, "set targetFolder to folder ")
        inFolder(i) == store.notes[i].folder = Literal(script[folderLine], 1)
        named(i, ln) == Contains(store.notes[i].name, Literal(script[ln], 1))
        f1 == LineIdx(script, "set foundNotes to notes where name contains ")
        f2 == LineIdx(script, "set candidateNotes to notes of targetFolder where name contains ")
        f3 == LineIdx(script, "set candidateNotes to notes where name contains ")
        f4 == LineIdx(script, "set candidateNotes to notes of targetFolder")
    IN IF f1 # 0 THEN SelectSeq(all, LAMBDA i : named(i, f1))
       ELSE IF f2 # 0 THEN SelectSeq(all, LAMBDA i : inFolder(i) /\ named(i, f2))
       ELSE IF f3 # 0 THEN SelectSeq(all, LAMBDA i : named(i, f3))
       ELSE IF f4 # 0 THEN SelectSeq(all, LAMBDA i : inFolder(i))
       ELSE all

\* the lines between "repeat with n in ..." and "end repeat"
LoopBody(script) ==
    LET from == {i \in 1..Len(script) : \E s \in {"repeat with n in foundNotes",
                     "repeat with n in candidateNotes", "repeat with n in allNotes"} :
                     Starts(script[i], s)}
        start == CHOOSE i \in from : TRUE
        ends == {j \in 1..Len(script) : j > start /\ script[j] = EndRepeat}
        stop == CHOOSE j \in ends : \A m \in ends : j <= m
    IN IF from = {} THEN <<>> ELSE SubSeq(script, start + 1, stop - 1)

IsAppend(line) ==
    \/ Starts(line, "set end of noteList to name of n")
    \/ Starts(line, "set end of output to name of n")
    \/ Starts(line, "copy name of n to end of matchedNotes")

\* one pass of the loop body for note n, from line i on: whether the note's
\* name is collected and whether its body is examined
RECURSIVE RunBody(_, _, _)
RunBody(b, i, n) ==
    IF i > Len(b) THEN [keep |-> FALSE, read |-> FALSE]
    ELSE LET ln == b[i]
             endIfs == {j \in (i + 1)..Len(b) : b[j] = EndIf}
             afterEndIf == (CHOOSE j \in endIfs : \A m \in endIfs : j <= m) + 1
             branch(cond) == RunBody(b, IF cond THEN i + 1 ELSE afterEndIf, n)
         IN CASE ln = NextRepeat -> [keep |-> FALSE, read |-> FALSE]
              [] IsAppend(ln) -> [keep |-> TRUE, read |-> RunBody(b, i + 1, n).read]
              [] Starts(ln, "if modification date of n < date ") ->
                     branch(n.mod < PiecesOf(ln, "date")[1].wall)
              [] Starts(ln, "if modification date of n > date ") ->
                     branch(n.mod > PiecesOf(ln, "date")[1].wall)
              [] Starts(ln, "if body of n contains ") ->
                     [keep |-> branch(Contains(n.body, Literal(ln, 1))).keep,
                      read |-> TRUE]
              [] Starts(ln, "if (name of n contains ") ->
                     LET inName == Contains(n.name, Literal(ln, 1))
                         r == branch(inName \/ Contains(n.body, Literal(ln, 2)))
                     IN [keep |-> r.keep, read |-> r.read \/ ~inName]
              [] OTHER -> RunBody(b, i + 1, n)

\* the notes whose names the script collects, in order
Collected(script, store) ==
    SelectSeq(Candidates(script, store),
              LAMBDA i : RunBody(LoopBody(script), 1, store.notes[i]).keep)

\* the notes whose body the script examines
BodyReads(script, store) ==
    {i \in 1..Len(store.notes) :
        /\ \E c \in 1..Len(Candidates(script, store)) : Candidates(script, store)[c] = i
        /\ RunBody(LoopBody(script), 1, store.notes[i]).read}

NamesOf(store, idx) == [c \in 1..Len(idx) |-> store.notes[idx[c]].name]

\* the text of the note a "get body of note" or "get plaintext of note"
\* script names, empty when the script names none
BodyOf(script, store) ==
    LET ln == IF HasLine(script, "get body of note ")
              THEN LineIdx(script, "get body of note ")
              ELSE LineIdx(script, "get plaintext of note ")
        hits == SelectSeq(store.notes, LAMBDA n : ln # 0 /\ n.name = Literal(script[ln], 1))
    IN IF hits = <<>> THEN <<>> ELSE hits[1].body

\* standard output of osascript: a list the script returns directly is
\* printed with ", " between its items; a list the script joins itself is
\* printed joined by the script's text item delimiter
BridgeOutput(script, store) ==
    LET all == Indexes(store.notes)
        direct == LineIdx(script, "get name of notes in folder ")
        delimLine == LineIdx(script, "set AppleScript's text item delimiters to ")
        delim == Literal(script[delimLine], 1)
    IN IF HasLine(script, "get name of notes")
       THEN Join(NamesOf(store, all), CommaSpace) \o <<NL>>
       ELSE IF direct # 0
       THEN Join(NamesOf(store, SelectSeq(all,
                LAMBDA i : store.notes[i].folder = Literal(script[direct], 1))),
                CommaSpace) \o <<NL>>
       ELSE IF HasLine(script, "set allFolders to folders")
       THEN Join(store.folders, delim) \o <<NL>>
       ELSE IF delimLine = 0
       THEN BodyOf(script, store) \o <<NL>>
       ELSE Join(NamesOf(store, Collected(script, store)), delim) \o <<NL>>

-----------------------------------------------------------------------------
(* Result parsing *)

maxResults == 100
ZeroTime == 0

\* fmt.Sprintf("%d", now.UnixMilli())
FormatMillis(now) == <<ToString(now)>>

Take(s, n) == SubSeq(s, 1, Min(n, Len(s)))

\* the segments of a split, each trimmed, the empty ones dropped
TrimmedNonEmpty(segs) ==
    SelectSeq([i \in DOMAIN segs |-> TrimSpace(segs[i])], LAMBDA t : t # <<>>)

\* a Note of a listing: only the title comes from the bridge
ListedNote(title, now) ==
    [ID |-> FormatMillis(now), Title |-> title, Content |-> <<>>, Tags |-> <<>>,
     Created |-> now, Modified |-> now, CreationDate |-> ZeroTime,
     ModificationDate |-> ZeroTime, Folder |-> <<>>, Shared |-> FALSE,
     PasswordProtected |-> FALSE]

NotesOf(titles, now) == [i \in DOMAIN titles |-> ListedNote(titles[i], now)]

\* A plausible slip: the 100-result limit left out
parseSearchResultsNoLimit(stdout, now) ==
    LET out == TrimSpace(stdout)
    IN IF out = <<>> THEN <<>>
       ELSE NotesOf(TrimmedNonEmpty(Split(out, Delimiter)), now)

parseSearchResults(stdout, now) ==
    LET out == TrimSpace(stdout)
    IN IF out = <<>> THEN <<>>
       ELSE NotesOf(Take(TrimmedNonEmpty(Split(out, Delimiter)), maxResults), now)

\* the parsing loop of SearchNotes and ListFolders: no limit
parseDelimited(stdout) ==
    LET out == TrimSpace(stdout)
    IN IF out = <<>> THEN <<>> ELSE TrimmedNonEmpty(Split(out, Delimiter))

\* the parsing loop of GetRecentNotes and GetNotesInFolder: split at ", "
parseCommaList(stdout, limit) ==
    LET out == TrimSpace(stdout)
        titles == TrimmedNonEmpty(Split(out, CommaSpace))
    IN IF out = <<>> THEN <<>>
       ELSE IF limit > 0 THEN Take(titles, limit) ELSE titles

\* parseFolderHierarchy: the output is not read; the root alone is returned
parseFolderHierarchy(output) ==
    [Name |-> iCloudAccount, Shared |-> FALSE, Children |-> <<>>, NoteCount |-> 0]

-----------------------------------------------------------------------------
(* Record parsing: GetNoteMetadata and GetNoteAttachments. A record the    *)
(* bridge prints is a sequence of fields label:value, the value quoted,    *)
(* bare, or a date literal date "..."; a date string is its sequence of    *)
(* words, the commas words of their own.                                   *)

Field(label, form, val) == [label |-> label, form |-> form, val |-> val]

COMMA == ","

Leftmost(hits) == CHOOSE i \in hits : \A j \in hits : i <= j

\* the words of a date literal up to its first comma
BeforeComma(words) ==
    LET cuts == {i \in DOMAIN words : words[i] = COMMA}
    IN IF cuts = {} THEN words ELSE SubSeq(words, 1, Leftmost(cuts) - 1)

\* what the pattern fieldName:(?:"([^"]+)"|([^,}]+)) captures at one field
FieldCapture(f) ==
    CASE f.form = "quoted" /\ f.val # <<>> -> f.val
      [] f.form = "quoted" -> <<QUOTE, QUOTE>>
      [] f.form = "date" -> <<"date", SP, QUOTE>> \o BeforeComma(f.val)
      [] OTHER -> TrimSpace(f.val)

\* the places inside a quoted value where the words fieldName and ":" stand
\* with more of the value after them: the pattern is not anchored at a label
InnerMatches(f, fieldName) ==
    IF f.form # "quoted" THEN {}
    ELSE {p \in 1..(Len(f.val) - 2) : f.val[p] = fieldName /\ f.val[p + 1] = ":"}

\* what ([^,}]+) captures there: up to the next comma, the closing quote of
\* the value included when no comma comes before it
InnerCapture(f, p) ==
    LET rest == SubSeq(f.val, p + 2, Len(f.val))
        cuts == {k \in DOMAIN rest : rest[k] = COMMA}
    IN TrimSpace(IF cuts = {} THEN rest \o <<QUOTE>>
                 ELSE SubSeq(rest, 1, Leftmost(cuts) - 1))

\* extractField: the leftmost place of the record the pattern matches, at a
\* field's label or inside a value; "" when there is none
extractField(output, fieldName) ==
    LET own == {i \in DOMAIN output :
                   /\ output[i].label = fieldName
                   /\ (output[i].form = "bare" => output[i].val # <<>>)}
        hits == own \cup {i \in DOMAIN output : InnerMatches(output[i], fieldName) # {}}
        i == Leftmost(hits)
    IN IF hits = {} THEN <<>>
       ELSE IF i \in own THEN FieldCapture(output[i])
       ELSE InnerCapture(output[i], Leftmost(InnerMatches(output[i], fieldName)))

\* extractDateField: pattern fieldName:date "([^"]+)"
extractDateField(output, fieldName) ==
    LET hits == {i \in DOMAIN output :
                    /\ output[i].label = fieldName
                    /\ output[i].form = "date"
                    /\ output[i].val # <<>>}
    IN IF hits = {} THEN <<>> ELSE output[Leftmost(hits)].val

\* the values of the layout "Monday, January 2, 2006 at 3:04:05 PM"
Weekdays == {"Monday", "Tuesday"}
Months == {"January"}
DayNumber == ("1" :> 1) @@ ("15" :> 15)
Years == {"2024"}
ClockOf == ("10:00:00" :> [h |-> 10, m |-> 0]) @@ ("3:30:00" :> [h |-> 3, m |-> 30])
Meridiems == {"AM", "PM"}

\* the instant of a date of 2024, in minutes
Instant(day, clk, pm) ==
    (DayNumber[day] * 24 + (ClockOf[clk].h % 12) + (IF pm = "PM" THEN 12 ELSE 0)) * 60
        + ClockOf[clk].m

TrimDatePrefix(s) ==
    IF Len(s) >= 3 /\ SubSeq(s, 1, 3) = <<"date", SP, QUOTE>> THEN SubSeq(s, 4, Len(s)) ELSE s

TrimQuoteSuffix(s) ==
    IF s # <<>> /\ s[Len(s)] = QUOTE THEN SubSeq(s, 1, Len(s) - 1) ELSE s

FailedToParseDate == <<"failed to parse AppleScript date", "parsing time">>

\* parseAppleScriptDate: the instant and a nil error, or the zero time and
\* an error when the string is not of the layout
parseAppleScriptDate(dateStr) ==
    LET s == TrimSpace(TrimQuoteSuffix(TrimDatePrefix(dateStr)))
        matches ==
            /\ Len(s) = 9
            /\ s[1] \in Weekdays /\ s[2] = COMMA
            /\ s[3] \in Months /\ s[4] \in DOMAIN DayNumber /\ s[5] = COMMA
            /\ s[6] \in Years /\ s[7] = "at"
            /\ s[8] \in DOMAIN ClockOf /\ s[9] \in Meridiems
    IN IF matches THEN [t |-> Instant(s[4], s[8], s[9]), err |-> NoError]
       ELSE [t |-> ZeroTime, err |-> FailedToParseDate]

\* the date field of a record as parseNoteMetadata and parseAttachments
\* read it: a date that does not parse leaves the zero time
DateOrZero(output, fieldName) ==
    LET str == extractDateField(output, fieldName)
        parsed == parseAppleScriptDate(str)
    IN IF str # <<>> /\ parsed.err = NoError THEN parsed.t ELSE ZeroTime

parseNoteMetadata(output, title) ==
    LET creationDate == DateOrZero(output, "creation date")
        modificationDate == DateOrZero(output, "modification date")
    IN [note |->
           [ID |-> extractField(output, "id"), Title |-> title, Content |-> <<>>,
            Tags |-> <<>>, Created |-> creationDate, Modified |-> modificationDate,
            CreationDate |-> creationDate, ModificationDate |-> modificationDate,
            Folder |-> extractField(output, "container"),
            Shared |-> extractField(output, "shared") = <<"true">>,
            PasswordProtected |-> extractField(output, "password protected") = <<"true">>],
        err |-> NoError]

TrimFilePrefix(s) == IF s # <<>> /\ s[1] = "file://" THEN Tail(s) ELSE s

ParsedAttachment(line) ==
    [Name |-> extractField(line, "name"),
     FilePath |-> TrimFilePrefix(extractField(line, "contents")),
     ContentIdentifier |-> extractField(line, "id"),
     CreationDate |-> DateOrZero(line, "creation date"),
     ModificationDate |-> DateOrZero(line, "modification date"),
     ID |-> extractField(line, "id")]

\* parseAttachments: one record a line, the blank lines skipped
parseAttachments(output) ==
    LET lines == SelectSeq(output, LAMBDA l : l # <<>>)
    IN [attachments |-> [i \in DOMAIN lines |-> ParsedAttachment(lines[i])],
        err |-> NoError]

-----------------------------------------------------------------------------
(* HTML to Markdown. An HTML text is a sequence of tokens: a character, or *)
(* a tag with its name, whether it closes, its href and whether it has     *)
(* other attributes or a closing slash.                                    *)

Ch(c) == [name |-> <<>>, close |-> FALSE, c |-> c, hasHref |-> FALSE, href |-> <<>>,
          attrs |-> FALSE, slash |-> FALSE]
Open(name) == [Ch("") EXCEPT !.name = name]
Close(name) == [Ch("") EXCEPT !.name = name, !.close = TRUE]
Link(name, href) == [Ch("") EXCEPT !.name = name, !.hasHref = TRUE, !.href = href]

Chars(str) == [i \in DOMAIN str |-> Ch(str[i])]

\* the token reads <prefix[^>]*>
IsOpenWith(t, prefix) ==
    /\ t.name # <<>>
    /\ ~t.close
    /\ Len(t.name) >= Len(prefix)
    /\ SubSeq(t.name, 1, Len(prefix)) = prefix

\* ReplaceAllString for a pattern <prefix[^>]*>(.*?)</closeName>, or with
\* href="([^"]*)" in the opening tag: matches are taken left to right, the
\* content runs to the nearest closing tag and holds no line break
RECURSIVE ReplaceElement(_, _, _, _, _, _)
ReplaceElement(s, prefix, needHref, closeName, pre, post) ==
    IF s = <<>> THEN <<>>
    ELSE LET t == s[1]
             ends == {j \in 2..Len(s) : s[j] = Close(closeName)}
             j == Leftmost(ends)
             matched ==
                 /\ IsOpenWith(t, prefix)
                 /\ needHref => t.hasHref
                 /\ ends # {}
                 /\ \A k \in 2..(j - 1) : s[k] # Ch(NL)
             tail == IF needHref THEN Chars(<<"]", "(">> \o t.href \o <<")">>)
                     ELSE Chars(post)
         IN IF matched
            THEN Chars(pre) \o SubSeq(s, 2, j - 1) \o tail
                 \o ReplaceElement(SubSeq(s, j + 1, Len(s)), prefix, needHref,
                                   closeName, pre, post)
            ELSE <<t>> \o ReplaceElement(Tail(s), prefix, needHref, closeName,
                                         pre, post)

Heading(s, level, marks) ==
    ReplaceElement(s, <<"h", level>>, FALSE, <<"h", level>>, marks \o <<SP>>, <<NL>>)

\* pattern <br\s*/?>
IsLineBreak(t) == t.name = <<"b", "r">> /\ ~t.close /\ ~t.hasHref /\ ~t.attrs

\* pattern \n{3,} replaced by two line breaks
CollapseNewlines(str) ==
    LET keep == {i \in DOMAIN str :
                    ~(i > 2 /\ str[i] = NL /\ str[i - 1] = NL /\ str[i - 2] = NL)}
        cells == SelectSeq([i \in DOMAIN str |-> IF i \in keep THEN <<str[i]>> ELSE <<>>],
                           LAMBDA x : x # <<>>)
    IN [i \in DOMAIN cells |-> cells[i][1]]

convertHTMLToMarkdown(html) ==
    LET h1 == Heading(html, "1", <<"#">>)
        h2 == Heading(h1, "2", <<"#", "#">>)
        h3 == Heading(h2, "3", <<"#", "#", "#">>)
        h4 == Heading(h3, "4", <<"#", "#", "#", "#">>)
        h5 == Heading(h4, "5", <<"#", "#", "#", "#", "#">>)
        h6 == Heading(h5, "6", <<"#", "#", "#", "#", "#", "#">>)
        b == ReplaceElement(h6, <<"b">>, FALSE, <<"b">>, <<"*", "*">>, <<"*", "*">>)
        strong == ReplaceElement(b, <<"s", "t", "r", "o", "n", "g">>, FALSE,
                                 <<"s", "t", "r", "o", "n", "g">>, <<"*", "*">>, <<"*", "*">>)
        i == ReplaceElement(strong, <<"i">>, FALSE, <<"i">>, <<"*">>, <<"*">>)
        em == ReplaceElement(i, <<"e", "m">>, FALSE, <<"e", "m">>, <<"*">>, <<"*">>)
        a == ReplaceElement(em, <<"a">>, TRUE, <<"a">>, <<"[">>, <<>>)
        li == ReplaceElement(a, <<"l", "i">>, FALSE, <<"l", "i">>, <<"-", SP>>, <<NL>>)
        br == [k \in DOMAIN li |-> IF IsLineBreak(li[k]) THEN Ch(NL) ELSE li[k]]
        p == ReplaceElement(br, <<"p">>, FALSE, <<"p">>, <<>>, <<NL, NL>>)
        kept == SelectSeq(p, LAMBDA t : t.name = <<>>)
        plain == [k \in DOMAIN kept |-> kept[k].c]
    IN IF html = <<>> THEN <<>>
       ELSE TrimSpace(CollapseNewlines(plain))

-----------------------------------------------------------------------------
(* Inputs: what callers pass and what the bridge answers *)

NoTree == [Name |-> <<>>, Shared |-> FALSE, Children |-> <<>>, NoteCount |-> 0]

NowValues == {1, 2}

ArgChars == {"a", QUOTE, BS}
ArgTexts == SeqsUpTo(ArgChars, MaxArgLen)
FolderTexts == {<<>>} \cup {<<c>> : c \in ArgChars}
ContentTexts == FolderTexts \cup {<<NL>>, <<"a", NL, QUOTE>>}

Times == {NoTime} \cup {[set |-> TRUE, wall |-> w, nsec |-> n] : w \in 1..MaxWall, n \in {0, 1}}
Scopes == {"", SearchInTitle, SearchInBody, SearchInBoth, "invalid", "Title"}

StoredNote(name, body, folder, mod) ==
    [name |-> name, body |-> body, folder |-> folder, mod |-> mod]

Store0 ==
    [notes |-> << StoredNote(<<"a">>, <<"b">>, <<"a">>, 1),
                  StoredNote(<<"b">>, <<"a">>, <<QUOTE>>, 2) >>,
     folders |-> << <<"a">>, <<QUOTE>> >>]

\* stores whose first note varies in every property a search looks at
FilterStores ==
    {[notes |-> << StoredNote(n, b, f, m), StoredNote(<<"a">>, <<"a">>, <<"a">>, 2) >>,
      folders |-> << <<"a">>, <<QUOTE>> >>] :
        n \in {<<"a">>, <<"b">>}, b \in {<<"a">>, <<"b">>},
        f \in {<<"a">>, <<QUOTE>>}, m \in 1..MaxWall}

\* names as the Notes app allows them: commas and inner spaces included
NameChars == {"a", ",", SP}
Names == {n \in SeqsUpTo(NameChars, MaxNameLen) : n # <<>> /\ TrimSpace(n) = n}
NameLists == {<<>>} \cup {<<n>> : n \in Names} \cup {<<n, <<"a">>>> : n \in Names}

NameStores ==
    {[notes |-> [i \in DOMAIN ns |-> StoredNote(ns[i], <<>>, <<"a">>, 1)],
      folders |-> ns] : ns \in NameLists}

OutChars == {"a", "|", SP, ","}
RawOutputs == SeqsUpTo(OutChars, MaxOutLen)

\* n entries joined by the delimiter, as a very large account prints them
BigOutput(n) ==
    [i \in 1..(4 * n - 3) |-> IF i % 4 = 1 THEN "a" ELSE "|"] \o <<NL>>
BigCounts == {maxResults - 1, maxResults, maxResults + 1, maxResults + 50}

Env(store, useRaw, raw, diag, err, now, tree) ==
    [store |-> store, useRaw |-> useRaw, raw |-> raw, stderr |-> diag, err |-> err,
     now |-> now, tree |-> tree]

OkEnv(store, now) == Env(store, FALSE, <<>>, <<>>, NoError, now, NoTree)
RawEnv(raw) == Env(Store0, TRUE, raw, <<>>, NoError, 1, NoTree)

Env0 == OkEnv(Store0, 1)
BasicEnvs == {OkEnv(Store0, n) : n \in NowValues}
NameEnvs == {OkEnv(s, 1) : s \in NameStores}
FilterEnvs == {OkEnv(s, 1) : s \in FilterStores}
\* longer outputs: names with commas, a fourth bar, blanks around a name
SampleOutputs ==
    { <<"a", ",", SP, "a", "|", "|", "|", "a", "|", "|", "|", "a">>,
      <<SP, ",", "|", "|", "|", "|", "a", ",", SP, "a", "|", "|", "|", NL>> }

RawEnvs == {RawEnv(r) : r \in RawOutputs \cup SampleOutputs}
BigEnvs == {RawEnv(BigOutput(n)) : n \in BigCounts}

FailDiags == {<<>>, <<"Note", "not", "found">>, <<"folder", "not", "found">>,
              <<"-1728">>, <<"not", "Allowed">>, <<"-1743", "Note", "not", "found">>}
FailEnvs == {Env(Store0, TRUE, <<>>, d, e, 1, NoTree) : d \in FailDiags, e \in ExecErrors}

\* date strings the bridge prints: two of the layout, and malformed ones
GoodDates ==
    {<<"Monday", COMMA, "January", "1", COMMA, "2024", "at", "10:00:00", "AM">>,
     <<"Monday", COMMA, "January", "15", COMMA, "2024", "at", "3:30:00", "PM">>}
BadDates ==
    {<<"2024-01-01">>,
     <<"Monday", COMMA, "January", "1", COMMA, "2024", "10:00:00", "AM">>,
     <<"Monday", COMMA, "January", "1", COMMA, "2024", "at", "13:00:00", "PM">>}
DateStrings == GoodDates \cup BadDates

\* a date field, left out of the record when the note has no such date
DateField(label, words) ==
    IF words = <<>> THEN <<>> ELSE << Field(label, "date", words) >>

MetadataRecord(created, modified, shared) ==
    << Field("id", "quoted", <<"x">>), Field("name", "quoted", <<"a">>) >>
    \o DateField("creation date", created) \o DateField("modification date", modified)
    \o << Field("container", "quoted", <<"W">>), Field("shared", "bare", <<shared>>),
          Field("password protected", "bare", <<"false">>) >>

\* records in another order, without a folder, and of notes whose name
\* reads like a field
MetadataSamples ==
    { << Field("container", "quoted", <<"W">>), Field("shared", "bare", <<"true">>),
         Field("name", "quoted", <<"a", COMMA, "b">>), Field("id", "quoted", <<"x">>) >>,
      << Field("id", "quoted", <<"x">>), Field("name", "quoted", <<"a">>),
         Field("shared", "bare", <<"false">>),
         Field("password protected", "bare", <<"true">>) >>,
      << Field("id", "quoted", <<"x">>), Field("name", "quoted", <<"container", ":", "X">>),
         Field("container", "quoted", <<"W">>), Field("shared", "bare", <<"false">>),
         Field("password protected", "bare", <<"false">>) >>,
      << Field("id", "quoted", <<"x">>),
         Field("name", "quoted", <<"shared", ":", "true", COMMA, "b">>),
         Field("container", "quoted", <<"W">>), Field("shared", "bare", <<"false">>),
         Field("password protected", "bare", <<"false">>) >> }

MetadataRecords ==
    {MetadataRecord(c, m, sh) :
        c \in DateStrings \cup {<<>>}, m \in DateStrings \cup {<<>>}, sh \in {"true", "false"}}
    \cup MetadataSamples
MetadataEnvs == {RawEnv(r) : r \in MetadataRecords}

AttachmentLine(created, modified) ==
    << Field("id", "quoted", <<"x">>), Field("name", "quoted", <<"f">>),
       Field("contents", "quoted", <<"file://", "p">>) >>
    \o DateField("creation date", created) \o DateField("modification date", modified)

AttachmentLines ==
    {<<>>} \cup {AttachmentLine(c, m) : c \in DateStrings, m \in DateStrings \cup {<<>>}}
AttachmentOutputs ==
    {<<>>} \cup {<<l>> : l \in AttachmentLines}
        \cup {<<l, AttachmentLine(<<"2024-01-01">>, <<>>)>> : l \in AttachmentLines}
AttachmentEnvs == {RawEnv(o) : o \in AttachmentOutputs}

\* bodies of notes as the Notes application keeps them
HtmlTokens ==
    {Ch("a"), Ch(NL), Open(<<"b">>), Close(<<"b">>), Open(<<"b", "r">>),
     Open(<<"i">>), Close(<<"i">>)}
\* a body as the Notes app writes it: a line break ahead of a bold element
SampleBodies ==
    { <<Ch("a"), Open(<<"b", "r">>), Ch("a"), Open(<<"b">>), Ch("a"), Close(<<"b">>)>> }
HtmlBodies == SeqsUpTo(HtmlTokens, MaxHtmlLen) \cup SampleBodies
HtmlEnvs == {RawEnv(h) : h \in HtmlBodies}

\* what Execute returns on standard output for a script
Stdout(script, env) ==
    IF env.useRaw THEN env.raw ELSE BridgeOutput(script, env.store)

-----------------------------------------------------------------------------
(* Service facade: AppleNotesService. Each operation is given as the pair  *)
(* of the scripts it handed to Execute and what it returned.               *)

NoCall ==
    [op |-> "none", title |-> <<>>, content |-> <<>>, query |-> <<>>, folder |-> <<>>,
     parent |-> <<>>, name |-> <<>>, searchIn |-> "", from |-> NoTime, to |-> NoTime,
     limit |-> 0, tags |-> <<>>, env |-> Env0]

NoRet ==
    [err |-> NoError, notes |-> <<>>, names |-> <<>>, out |-> <<>>, tree |-> NoTree,
     total |-> 0, notice |-> FALSE, message |-> "", attachments |-> <<>>]

Outcome(ss, r) == [scripts |-> ss, ret |-> r]

\* A plausible slip: the error formatted with %v, its chain lost
FailedFlattened(ss, msg, env) ==
    Outcome(ss, [NoRet EXCEPT !.err = <<msg>>])

Failed(ss, msg, env) ==
    Outcome(ss, [NoRet EXCEPT !.err = Wrap(msg, DetectError(env.stderr, env.err))])

CreateNoteOp(title, content, tags, env) ==
    LET script == CreateNoteScript(title, content)
    IN IF env.err # NoError THEN Failed(<<script>>, "failed to create note", env)
       ELSE Outcome(<<script>>,
                [NoRet EXCEPT !.notes = << [ListedNote(title, env.now) EXCEPT
                                               !.Content = content, !.Tags = tags] >>])

SearchNotesOp(query, env) ==
    LET script == SearchNotesScript(query)
    IN IF env.err # NoError THEN Failed(<<script>>, "failed to search notes", env)
       ELSE Outcome(<<script>>,
                [NoRet EXCEPT !.notes = NotesOf(parseDelimited(Stdout(script, env)), env.now)])

\* A plausible slip: a failed script handed to Execute a second time
GetNoteContentRetrying(title, env) ==
    LET script == GetNoteContentScript(title)
    IN IF env.err # NoError
       THEN Failed(<<script, script>>, "failed to get note content", env)
       ELSE Outcome(<<script>>, [NoRet EXCEPT !.out = Stdout(script, env)])

GetNoteContentOp(title, env) ==
    LET script == GetNoteContentScript(title)
    IN IF env.err # NoError THEN Failed(<<script>>, "failed to get note content", env)
       ELSE Outcome(<<script>>, [NoRet EXCEPT !.out = Stdout(script, env)])

UpdateNoteOp(title, content, env) ==
    LET script == UpdateNoteScript(title, content)
    IN IF env.err # NoError THEN Failed(<<script>>, "failed to update note", env)
       ELSE Outcome(<<script>>, NoRet)

DeleteNoteOp(title, env) ==
    LET script == DeleteNoteScript(title)
    IN IF env.err # NoError THEN Failed(<<script>>, "failed to delete note", env)
       ELSE Outcome(<<script>>, NoRet)

ListFoldersOp(env) ==
    LET script == ListFoldersScript
    IN IF env.err # NoError THEN Failed(<<script>>, "failed to list folders", env)
       ELSE Outcome(<<script>>, [NoRet EXCEPT !.names = parseDelimited(Stdout(script, env))])

GetRecentNotesOp(limit, env) ==
    LET script == GetRecentNotesScript
    IN IF env.err # NoError THEN Failed(<<script>>, "failed to get recent notes", env)
       ELSE Outcome(<<script>>,
                [NoRet EXCEPT !.notes = NotesOf(parseCommaList(Stdout(script, env), limit),
                                               env.now)])

GetNotesInFolderOp(folder, env) ==
    LET script == GetNotesInFolderScript(folder)
    IN IF env.err # NoError THEN Failed(<<script>>, "failed to get notes in folder", env)
       ELSE Outcome(<<script>>,
                [NoRet EXCEPT !.notes = NotesOf(parseCommaList(Stdout(script, env), 0),
                                               env.now)])

CreateFolderOp(name, parentFolder, env) ==
    LET script == CreateFolderScript(name, parentFolder)
    IN IF env.err # NoError THEN Failed(<<script>>, "failed to create folder", env)
       ELSE Outcome(<<script>>, NoRet)

MoveNoteOp(noteTitle, targetFolder, env) ==
    LET script == MoveNoteScript(noteTitle, targetFolder)
    IN IF env.err # NoError THEN Failed(<<script>>, "failed to move note", env)
       ELSE Outcome(<<script>>, NoRet)

GetFolderHierarchyOp(env) ==
    LET script == GetFolderHierarchyScript
    IN IF env.err # NoError THEN Failed(<<script>>, "failed to get folder hierarchy", env)
       ELSE Outcome(<<script>>, [NoRet EXCEPT !.tree = parseFolderHierarchy(env.tree)])

ExportNoteTextOp(noteTitle, env) ==
    LET script == ExportNoteTextScript(noteTitle)
    IN IF env.err # NoError THEN Failed(<<script>>, "failed to export note as text", env)
       ELSE Outcome(<<script>>, [NoRet EXCEPT !.out = Stdout(script, env)])

GetNoteMetadataOp(title, env) ==
    LET script == GetNoteMetadataScript(title)
        parsed == parseNoteMetadata(Stdout(script, env), title)
    IN IF env.err # NoError THEN Failed(<<script>>, "failed to get note metadata", env)
       ELSE IF parsed.err # NoError
       THEN Outcome(<<script>>,
                [NoRet EXCEPT !.err = Wrap("failed to parse note metadata", parsed.err)])
       ELSE Outcome(<<script>>, [NoRet EXCEPT !.notes = <<parsed.note>>])

GetNoteAttachmentsOp(noteTitle, env) ==
    LET script == GetNoteAttachmentsScript(noteTitle)
        parsed == parseAttachments(Stdout(script, env))
    IN IF env.err # NoError THEN Failed(<<script>>, "failed to get note attachments", env)
       ELSE IF parsed.err # NoError
       THEN Outcome(<<script>>,
                [NoRet EXCEPT !.err = Wrap("failed to parse attachments", parsed.err)])
       ELSE Outcome(<<script>>, [NoRet EXCEPT !.attachments = parsed.attachments])

ExportNoteMarkdownOp(noteTitle, env) ==
    LET got == GetNoteContentOp(noteTitle, env)
    IN IF got.ret.err # NoError
       THEN Outcome(got.scripts,
                [NoRet EXCEPT !.err = Wrap("failed to export note as markdown", got.ret.err)])
       ELSE Outcome(got.scripts, [NoRet EXCEPT !.out = convertHTMLToMarkdown(got.ret.out)])

\* A plausible slip: the script built and run before the scope is validated
SearchNotesAdvancedValidateLate(opts, env) ==
    LET searchIn == IF opts.SearchIn = "" THEN SearchInTitle ELSE opts.SearchIn
        script == buildSearchScript(searchIn, opts)
    IN IF env.err # NoError THEN Failed(<<script>>, "failed to search notes", env)
       ELSE IF validateSearchIn(searchIn) # NoError
       THEN Outcome(<<script>>, [NoRet EXCEPT !.err = validateSearchIn(searchIn)])
       ELSE Outcome(<<script>>,
                [NoRet EXCEPT !.notes = parseSearchResults(Stdout(script, env), env.now)])

SearchNotesAdvancedOp(opts, env) ==
    LET searchIn == IF opts.SearchIn = "" THEN SearchInTitle ELSE opts.SearchIn
        script == buildSearchScript(searchIn, opts)
    IN IF validateSearchIn(searchIn) # NoError
       THEN Outcome(<<>>, [NoRet EXCEPT !.err = validateSearchIn(searchIn)])
       ELSE IF env.err # NoError THEN Failed(<<script>>, "failed to search notes", env)
       ELSE Outcome(<<script>>,
                [NoRet EXCEPT !.notes = parseSearchResults(Stdout(script, env), env.now)])

SearchOptions(query, searchIn, folder, from, to) ==
    [Query |-> query, SearchIn |-> searchIn, Folder |-> folder, DateFrom |-> from,
     DateTo |-> to]

-----------------------------------------------------------------------------
(* Service actions. The service keeps nothing between calls, so a          *)
(* behaviour holds one call on a freshly constructed service.              *)

SvcInit ==
    /\ call = NoCall
    /\ scripts = <<>>
    /\ ret = NoRet

Returns(c, o) ==
    /\ call' = c
    /\ scripts' = o.scripts
    /\ ret' = o.ret

\* inputs in two slices: every caller text with a plain answer, and one
\* caller text with every answer
Slices(texts, envs) ==
    {<<t, e>> : t \in texts, e \in BasicEnvs} \cup {<<<<"a">>, e>> : e \in envs}

CreateNote ==
    /\ call.op = "none"
    /\ \E title \in ArgTexts, content \in ContentTexts, tags \in {<<>>, <<"t">>},
       env \in BasicEnvs \cup {Env(Store0, TRUE, <<>>, <<"-1728">>, ExitStatus1, 1, NoTree)} :
        Returns([NoCall EXCEPT !.op = "CreateNote", !.title = title, !.content = content,
                               !.tags = tags, !.env = env],
                CreateNoteOp(title, content, tags, env))

SearchNotes ==
    /\ call.op = "none"
    /\ \E in \in Slices(ArgTexts, NameEnvs \cup FailEnvs \cup RawEnvs) :
        Returns([NoCall EXCEPT !.op = "SearchNotes", !.query = in[1], !.env = in[2]],
                SearchNotesOp(in[1], in[2]))

GetNoteContent ==
    /\ call.op = "none"
    /\ \E in \in Slices(ArgTexts, FailEnvs \cup RawEnvs) :
        Returns([NoCall EXCEPT !.op = "GetNoteContent", !.title = in[1], !.env = in[2]],
                GetNoteContentOp(in[1], in[2]))

UpdateNote ==
    /\ call.op = "none"
    /\ \E title \in ArgTexts, content \in ContentTexts,
       env \in BasicEnvs \cup {Env(Store0, TRUE, <<>>, <<"-1728">>, ExitStatus1, 1, NoTree)} :
        Returns([NoCall EXCEPT !.op = "UpdateNote", !.title = title, !.content = content,
                               !.env = env],
                UpdateNoteOp(title, content, env))

DeleteNote ==
    /\ call.op = "none"
    /\ \E in \in Slices(ArgTexts, FailEnvs) :
        Returns([NoCall EXCEPT !.op = "DeleteNote", !.title = in[1], !.env = in[2]],
                DeleteNoteOp(in[1], in[2]))

ListFolders ==
    /\ call.op = "none"
    /\ \E env \in BasicEnvs \cup NameEnvs \cup FailEnvs \cup RawEnvs :
        Returns([NoCall EXCEPT !.op = "ListFolders", !.env = env], ListFoldersOp(env))

GetRecentNotes ==
    /\ call.op = "none"
    /\ \E limit \in 0..MaxLimit, env \in BasicEnvs \cup NameEnvs \cup FailEnvs :
        Returns([NoCall EXCEPT !.op = "GetRecentNotes", !.limit = limit, !.env = env],
                GetRecentNotesOp(limit, env))

GetNotesInFolder ==
    /\ call.op = "none"
    /\ \E in \in Slices(ArgTexts, NameEnvs \cup FailEnvs) :
        Returns([NoCall EXCEPT !.op = "GetNotesInFolder", !.folder = in[1], !.env = in[2]],
                GetNotesInFolderOp(in[1], in[2]))

CreateFolder ==
    /\ call.op = "none"
    /\ \E name \in ArgTexts, parent \in FolderTexts,
       env \in BasicEnvs \cup {Env(Store0, TRUE, <<>>, <<"folder", "not", "found">>,
                                   ExitStatus1, 1, NoTree)} :
        Returns([NoCall EXCEPT !.op = "CreateFolder", !.name = name, !.parent = parent,
                               !.env = env],
                CreateFolderOp(name, parent, env))

MoveNote ==
    /\ call.op = "none"
    /\ \E title \in ArgTexts, folder \in FolderTexts,
       env \in BasicEnvs \cup {Env(Store0, TRUE, <<>>, <<"folder", "not", "found">>,
                                   ExitStatus1, 1, NoTree)} :
        Returns([NoCall EXCEPT !.op = "MoveNote", !.title = title, !.folder = folder,
                               !.env = env],
                MoveNoteOp(title, folder, env))

ExportNoteText ==
    /\ call.op = "none"
    /\ \E in \in Slices(ArgTexts, FailEnvs \cup RawEnvs) :
        Returns([NoCall EXCEPT !.op = "ExportNoteText", !.title = in[1], !.env = in[2]],
                ExportNoteTextOp(in[1], in[2]))

\* date filters on the whole second, and one of them for the runs that vary
\* the texts
WallTimes == {NoTime} \cup {[set |-> TRUE, wall |-> w, nsec |-> 0] : w \in 1..MaxWall}
SomeTimes == {NoTime, [set |-> TRUE, wall |-> 1, nsec |-> 1]}

\* every text in every scope with a plain answer; every date filter in every
\* scope; one query against every store; one search with every failure and
\* every raw output
SearchInputs ==
    {<<SearchOptions(q, s, f, from, to), Env0>> :
        q \in ArgTexts, s \in Scopes, f \in FolderTexts, from \in SomeTimes, to \in SomeTimes}
    \cup {<<SearchOptions(<<"a">>, s, f, from, to), Env0>> :
        s \in Scopes, f \in {<<>>, <<"a">>}, from \in Times, to \in Times}
    \cup {<<SearchOptions(<<"a">>, s, f, from, to), e>> :
        s \in {SearchInTitle, SearchInBody, SearchInBoth}, f \in {<<>>, <<"a">>, <<QUOTE>>},
        from \in WallTimes, to \in WallTimes, e \in FilterEnvs}
    \cup {<<SearchOptions(<<"a">>, s, <<>>, NoTime, NoTime), e>> :
        s \in {SearchInTitle, SearchInBody}, e \in FailEnvs \cup RawEnvs \cup BigEnvs \cup NameEnvs}

SearchNotesAdvanced ==
    /\ call.op = "none"
    /\ \E in \in SearchInputs :
        Returns([NoCall EXCEPT !.op = "SearchNotesAdvanced", !.query = in[1].Query,
                               !.searchIn = in[1].SearchIn, !.folder = in[1].Folder,
                               !.from = in[1].DateFrom, !.to = in[1].DateTo, !.env = in[2]],
                SearchNotesAdvancedOp(in[1], in[2]))

\* folder records as the bridge holds them
GetNoteMetadata ==
    /\ call.op = "none"
    /\ \E in \in {<<t, e>> : t \in FolderTexts, e \in MetadataEnvs}
                  \cup {<<<<"a">>, e>> : e \in FailEnvs} :
        Returns([NoCall EXCEPT !.op = "GetNoteMetadata", !.title = in[1], !.env = in[2]],
                GetNoteMetadataOp(in[1], in[2]))

GetNoteAttachments ==
    /\ call.op = "none"
    /\ \E in \in {<<t, e>> : t \in FolderTexts, e \in AttachmentEnvs}
                  \cup {<<<<"a">>, e>> : e \in FailEnvs} :
        Returns([NoCall EXCEPT !.op = "GetNoteAttachments", !.title = in[1], !.env = in[2]],
                GetNoteAttachmentsOp(in[1], in[2]))

ExportNoteMarkdown ==
    /\ call.op = "none"
    /\ \E in \in {<<t, RawEnv(<<Ch("a")>>)>> : t \in ArgTexts}
                  \cup {<<<<"a">>, e>> : e \in HtmlEnvs \cup FailEnvs} :
        Returns([NoCall EXCEPT !.op = "ExportNoteMarkdown", !.title = in[1], !.env = in[2]],
                ExportNoteMarkdownOp(in[1], in[2]))

FolderNode(name, shared, children, count) ==
    [Name |-> name, Shared |-> shared, Children |-> children, NoteCount |-> count]

LeafFolders == {FolderNode(<<n>>, sh, <<>>, c) : n \in {"a", "b"}, sh \in BOOLEAN, c \in 0..1}
NestedFolders == {FolderNode(<<"p">>, FALSE, <<l>>, 0) : l \in LeafFolders}
BridgeTrees ==
    {FolderNode(iCloudAccount, FALSE, ch, 0) :
        ch \in {<<>>} \cup {<<f>> : f \in LeafFolders \cup NestedFolders}
               \cup {<<f, g>> : f \in LeafFolders, g \in NestedFolders}}

TreeEnvs == {Env(Store0, FALSE, <<>>, <<>>, NoError, 1, t) : t \in BridgeTrees}

GetFolderHierarchy ==
    /\ call.op = "none"
    /\ \E env \in TreeEnvs \cup FailEnvs :
        Returns([NoCall EXCEPT !.op = "GetFolderHierarchy", !.env = env],
                GetFolderHierarchyOp(env))

-----------------------------------------------------------------------------
(* The search_notes_advanced tool of the MCP server *)

maxSearchResults == 100

\* a date argument of the tool: absent, a day in YYYY-MM-DD form, or text
\* that is not a date
NoDate == [kind |-> "empty", day |-> 0]
DateArgs == {NoDate, [kind |-> "bad", day |-> 0]} \cup {[kind |-> "day", day |-> d] : d \in 1..MaxWall}

parseDateFilter(dateStr) ==
    CASE dateStr.kind = "empty" -> [t |-> NoTime, err |-> NoError]
      [] dateStr.kind = "bad" ->
             [t |-> NoTime, err |-> Wrap("invalid date format, use YYYY-MM-DD", ErrInvalidInput)]
      [] OTHER -> [t |-> [set |-> TRUE, wall |-> dateStr.day, nsec |-> 0], err |-> NoError]

createErrorResult(err) ==
    CASE ErrorsIs(err, ErrNoteNotFound) -> "Note not found"
      [] ErrorsIs(err, ErrNotesAppNotRunning) -> "Apple Notes app is not running"
      [] ErrorsIs(err, ErrPermissionDenied) -> "Permission denied"
      [] ErrorsIs(err, ErrScriptTimeout) -> "Apple Notes is not responding"
      [] ErrorsIs(err, ErrInvalidInput) -> "Invalid input"
      [] OTHER -> "An error occurred"

\* the handler: the scripts run on its behalf and the tool result; a handler
\* error is returned in err, an error result in message
SearchNotesAdvancedHandler(query, searchIn, folder, dateFrom, dateTo, env) ==
    LET scope == IF searchIn = "" THEN "title" ELSE searchIn
        from == parseDateFilter(dateFrom)
        to == parseDateFilter(dateTo)
        o == SearchNotesAdvancedOp(SearchOptions(query, scope, folder, from.t, to.t), env)
        notes == o.ret.notes
        totalNotes == Len(notes)
    IN IF query = <<>>
       THEN Outcome(<<>>, [NoRet EXCEPT !.err = Wrap("query is required", ErrInvalidInput)])
       ELSE IF from.err # NoError THEN Outcome(<<>>, [NoRet EXCEPT !.err = from.err])
       ELSE IF to.err # NoError THEN Outcome(<<>>, [NoRet EXCEPT !.err = to.err])
       ELSE IF o.ret.err # NoError
       THEN Outcome(o.scripts, [NoRet EXCEPT !.message = createErrorResult(o.ret.err)])
       ELSE IF Len(notes) = 0
       THEN Outcome(o.scripts, [NoRet EXCEPT !.message = "No notes found"])
       ELSE Outcome(o.scripts,
                [NoRet EXCEPT !.notes = Take(notes, maxSearchResults),
                              !.total = totalNotes,
                              !.notice = totalNotes > maxSearchResults,
                              !.message = "results"])

ToolInputs ==
    {<<q, s, f, from, to, Env0>> :
        q \in {<<>>, <<"a">>}, s \in Scopes, f \in {<<>>, <<"a">>},
        from \in DateArgs, to \in DateArgs}
    \cup {<<<<"a">>, "", <<>>, NoDate, NoDate, e>> :
        e \in FailEnvs \cup RawEnvs \cup BigEnvs}

SearchNotesAdvancedTool ==
    /\ call.op = "none"
    /\ \E in \in ToolInputs :
        Returns([NoCall EXCEPT !.op = "search_notes_advanced", !.query = in[1],
                               !.searchIn = in[2], !.folder = in[3],
                               !.from = parseDateFilter(in[4]).t,
                               !.to = parseDateFilter(in[5]).t, !.env = in[6]],
                SearchNotesAdvancedHandler(in[1], in[2], in[3], in[4], in[5], in[6]))


-----------------------------------------------------------------------------
(* Concurrent calls: goroutines calling operations of one service. A call  *)
(* builds its script, Execute allocates its buffers and starts osascript,  *)
(* the process writes its output and exits, and the operation reads the    *)
(* buffers and returns.                                                    *)

Threads == {1, 2}

\* NewAppleNotesService over NewOSAScriptExecutor(timeout)
NewAppleNotesService(timeout) ==
    [executor |-> [timeout |-> NewOSAScriptExecutor(timeout)],
     iCloudAccount |-> iCloudAccount]

NoBuffer == [stdout |-> <<>>, stderr |-> <<>>]

IdleThread ==
    [pc |-> "idle", call |-> NoCall, script |-> <<>>, err |-> NoError, ret |-> NoRet]

\* A plausible slip: the buffers kept in the executor, one pair for all calls
SharedBuffer(t) == 1

\* var stdout, stderr bytes.Buffer: local to the Execute call
BufferOf(t) == t

ConOps == {"GetNoteContent", "DeleteNote", "SearchNotes"}
ConArgs == {<<"a">>, <<QUOTE>>}
ConEnvs ==
    {OkEnv(Store0, 1), RawEnv(<<"x">>),
     Env(Store0, TRUE, <<>>, <<"Note", "not", "found">>, ExitStatus1, 1, NoTree)}

ConCall(op, arg, env) ==
    IF op = "SearchNotes" THEN [NoCall EXCEPT !.op = op, !.query = arg, !.env = env]
    ELSE [NoCall EXCEPT !.op = op, !.title = arg, !.env = env]

\* the operation of a call, run alone
OpOf(c) ==
    CASE c.op = "GetNoteContent" -> GetNoteContentOp(c.title, c.env)
      [] c.op = "DeleteNote" -> DeleteNoteOp(c.title, c.env)
      [] OTHER -> SearchNotesOp(c.query, c.env)

ConIdle ==
    /\ service = NewAppleNotesService(0)
    /\ threads = [t \in Threads |-> IdleThread]
    /\ buffers = [t \in Threads |-> NoBuffer]

ConInit ==
    /\ service \in {NewAppleNotesService(t) : t \in 0..MaxTimeout}
    /\ threads = [t \in Threads |-> IdleThread]
    /\ buffers = [t \in Threads |-> NoBuffer]

\* the operation is entered and builds the text of its script
Begin(t) ==
    /\ threads[t].pc = "idle"
    /\ \E op \in ConOps, arg \in ConArgs, env \in ConEnvs :
         LET c == ConCall(op, arg, env)
         IN threads' = [threads EXCEPT ![t] =
                [IdleThread EXCEPT !.pc = "built", !.call = c,
                                   !.script = OpOf(c).scripts[1]]]
    /\ UNCHANGED <<service, buffers>>

\* Execute: the buffers of the call are made and cmd.Run starts osascript
Spawn(t) ==
    /\ threads[t].pc = "built"
    /\ buffers' = [buffers EXCEPT ![BufferOf(t)] = NoBuffer]
    /\ threads' = [threads EXCEPT ![t].pc = "running"]
    /\ UNCHANGED service

\* the process writes its output to the buffers of its call and exits
ProcessExit(t) ==
    /\ threads[t].pc = "running"
    /\ LET env == threads[t].call.env
       IN /\ buffers' = [buffers EXCEPT ![BufferOf(t)] =
                 [stdout |-> @.stdout \o Stdout(threads[t].script, env),
                  stderr |-> @.stderr \o env.stderr]]
          /\ threads' = [threads EXCEPT ![t].pc = "exited", ![t].err = env.err]
    /\ UNCHANGED service

\* Execute returns the buffers' contents and the operation returns
Return(t) ==
    /\ threads[t].pc = "exited"
    /\ LET buf == buffers[BufferOf(t)]
           answered == [threads[t].call.env EXCEPT !.useRaw = TRUE, !.raw = buf.stdout,
                                                   !.stderr = buf.stderr,
                                                   !.err = threads[t].err]
       IN threads' = [threads EXCEPT
              ![t].pc = "returned",
              ![t].ret = OpOf([threads[t].call EXCEPT !.env = answered]).ret]
    /\ UNCHANGED <<service, buffers>>

-----------------------------------------------------------------------------
(* MCP server: the timeout of an operation. The server is started with an  *)
(* executor of 10 seconds; each tool handler derives its context with      *)
(* getOperationTimeout and calls the service, which calls Execute.         *)

osascriptTimeout == 10
commandTimeout == 30

DigitValue ==
    ("0" :> 0) @@ ("1" :> 1) @@ ("2" :> 2) @@ ("3" :> 3) @@ ("4" :> 4) @@
    ("5" :> 5) @@ ("6" :> 6) @@ ("7" :> 7) @@ ("8" :> 8) @@ ("9" :> 9)

\* the number written by a sequence of decimal digits
RECURSIVE DigitsValue(_)
DigitsValue(ds) ==
    IF ds = <<>> THEN 0
    ELSE 10 * DigitsValue(SubSeq(ds, 1, Len(ds) - 1)) + DigitValue[ds[Len(ds)]]

\* strconv.Atoi: an optional sign and at least one digit, nothing else
Atoi(s) ==
    LET signed == s # <<>> /\ s[1] \in {"-", "+"}
        ds == IF signed THEN Tail(s) ELSE s
        ok == ds # <<>> /\ \A i \in DOMAIN ds : ds[i] \in DOMAIN DigitValue
    IN IF ~ok THEN [n |-> 0, err |-> <<"invalid syntax">>]
       ELSE [n |-> IF signed /\ s[1] = "-" THEN 0 - DigitsValue(ds) ELSE DigitsValue(ds),
             err |-> NoError]

\* getOperationTimeout: value is what os.Getenv("NOTES_MCP_TIMEOUT") returns
getOperationTimeout(value) ==
    IF value # <<>> /\ Atoi(value).err = NoError /\ Atoi(value).n > 0
    THEN Atoi(value).n
    ELSE commandTimeout

EnvValues ==
    {<<>>, <<"a">>, <<"1", "a">>, <<"0">>, <<"-", "1">>, <<"2">>, <<"1", "2">>, <<"6", "0">>}

FileGone == [exists |-> FALSE, size |-> 0]

\* the file at filePath, as any process may leave it: its size in bytes
Files == {FileGone} \cup {[exists |-> TRUE, size |-> n] : n \in 0..(MaxFileSize + 1)}

\* a GetAttachmentContent call: content is the number of bytes returned
IdleAtt == [pc |-> "idle", maxSize |-> 0, statSize |-> 0, err |-> NoError, content |-> 0]

SysIdle ==
    /\ environ = <<>>
    /\ file = FileGone
    /\ att = IdleAtt

AttInit ==
    /\ environ = <<>>
    /\ file \in Files
    /\ att = IdleAtt

\* GetAttachmentContent up to the size check: os.Stat, then the comparison
AttStat ==
    /\ att.pc = "idle"
    /\ \E maxSize \in 0..MaxFileSize :
         att' = IF ~file.exists
                THEN [att EXCEPT !.pc = "done", !.maxSize = maxSize,
                          !.err = Wrap("failed to read attachment file", <<"no such file or directory">>)]
                ELSE IF file.size > maxSize
                THEN [att EXCEPT !.pc = "done", !.maxSize = maxSize, !.statSize = file.size,
                          !.err = <<"attachment file size exceeds maximum size">>]
                ELSE [att EXCEPT !.pc = "checked", !.maxSize = maxSize, !.statSize = file.size]
    /\ UNCHANGED <<environ, file>>

\* GetAttachmentContent from the read on: os.ReadFile returns the whole file
AttRead ==
    /\ att.pc = "checked"
    /\ att' = IF ~file.exists
              THEN [att EXCEPT !.pc = "done",
                        !.err = Wrap("failed to read attachment file", <<"no such file or directory">>)]
              ELSE [att EXCEPT !.pc = "done", !.content = file.size]
    /\ UNCHANGED <<environ, file>>

\* another process writes, truncates, removes or creates the file
FileWrite ==
    /\ att.pc # "done"
    /\ \E f \in Files : f # file /\ file' = f
    /\ UNCHANGED <<environ, att>>

\* runMCPServer: the executor every tool shares
McpInit ==
    /\ clock = 0
    /\ ex = [phase |-> "idle", timeout |-> NewOSAScriptExecutor(osascriptTimeout),
             parent |-> NoDeadline, cancelled |-> FALSE, start |-> 0, deadline |-> 0,
             need |-> 0, exit |-> 0, diag |-> <<>>, proc |-> "none", err |-> NoError,
             out |-> <<>>]
    /\ environ \in EnvValues
    /\ file = FileGone
    /\ att = IdleAtt

\* a tool handler: opCtx is derived with getOperationTimeout, the service
\* operation is called and hands its script to Execute
ToolCall ==
    /\ ex.phase = "idle"
    /\ \E need \in Needs, exit \in {0, 1}, diag \in ScriptDiags :
         LET opCtx == clock + getOperationTimeout(environ)
         IN ex' = [ex EXCEPT !.phase = "running", !.proc = "running",
                             !.parent = opCtx, !.start = clock,
                             !.deadline = WithTimeout(opCtx, clock, ex.timeout),
                             !.need = need, !.exit = exit, !.diag = diag]
    /\ UNCHANGED <<clock, clsVars>>

-----------------------------------------------------------------------------
(* Specifications *)

InitEscape == EscInit /\ ClsIdle /\ ExIdle /\ SvcInit /\ ConIdle /\ SysIdle

EscNext ==
    \/ Escape /\ UNCHANGED <<clsVars, exVars, svcVars, conVars, sysVars>>
    \/ Format /\ UNCHANGED <<clsVars, exVars, svcVars, conVars, sysVars>>

SpecEscape == InitEscape /\ [][EscNext]_vars

InitClassify == EscIdle /\ ClsInit /\ ExIdle /\ SvcInit /\ ConIdle /\ SysIdle

ClsNext == Classify /\ UNCHANGED <<escVars, exVars, svcVars, conVars, sysVars>>

SpecClassify == InitClassify /\ [][ClsNext]_vars

InitExec == EscIdle /\ ClsIdle /\ ExInit /\ SvcInit /\ ConIdle /\ SysIdle

ExNext ==
    \/ Tick /\ UNCHANGED <<escVars, svcVars, conVars, sysVars>>
    \/ ExecuteCall /\ UNCHANGED <<escVars, svcVars, conVars, sysVars>>
    \/ ParentCancel /\ UNCHANGED <<escVars, svcVars, conVars, sysVars>>
    \/ ScriptExit /\ UNCHANGED <<escVars, svcVars, conVars, sysVars>>
    \/ KillOnDone /\ UNCHANGED <<escVars, svcVars, conVars, sysVars>>
    \/ ExitRacesKill /\ UNCHANGED <<escVars, svcVars, conVars, sysVars>>
    \/ Classify /\ UNCHANGED <<escVars, exVars, svcVars, conVars, sysVars>>

SpecExec == InitExec /\ [][ExNext]_vars

\* the goroutine of os/exec that watches the context is scheduled once the
\* context is done, and a kill signal cannot be held off by the process
ExecFairness == WF_vars(KillOnDone /\ UNCHANGED <<escVars, svcVars, conVars, sysVars>>)

SpecExecFair == InitExec /\ [][ExNext]_vars /\ ExecFairness

InitService == EscIdle /\ ClsIdle /\ ExIdle /\ SvcInit /\ ConIdle /\ SysIdle

SvcNext ==
    \/ CreateNote /\ UNCHANGED <<escVars, clsVars, exVars, conVars, sysVars>>
    \/ SearchNotes /\ UNCHANGED <<escVars, clsVars, exVars, conVars, sysVars>>
    \/ GetNoteContent /\ UNCHANGED <<escVars, clsVars, exVars, conVars, sysVars>>
    \/ UpdateNote /\ UNCHANGED <<escVars, clsVars, exVars, conVars, sysVars>>
    \/ DeleteNote /\ UNCHANGED <<escVars, clsVars, exVars, conVars, sysVars>>
    \/ ListFolders /\ UNCHANGED <<escVars, clsVars, exVars, conVars, sysVars>>
    \/ GetRecentNotes /\ UNCHANGED <<escVars, clsVars, exVars, conVars, sysVars>>
    \/ GetNotesInFolder /\ UNCHANGED <<escVars, clsVars, exVars, conVars, sysVars>>
    \/ CreateFolder /\ UNCHANGED <<escVars, clsVars, exVars, conVars, sysVars>>
    \/ MoveNote /\ UNCHANGED <<escVars, clsVars, exVars, conVars, sysVars>>
    \/ GetFolderHierarchy /\ UNCHANGED <<escVars, clsVars, exVars, conVars, sysVars>>
    \/ ExportNoteText /\ UNCHANGED <<escVars, clsVars, exVars, conVars, sysVars>>
    \/ SearchNotesAdvanced /\ UNCHANGED <<escVars, clsVars, exVars, conVars, sysVars>>
    \/ SearchNotesAdvancedTool /\ UNCHANGED <<escVars, clsVars, exVars, conVars, sysVars>>
    \/ GetNoteMetadata /\ UNCHANGED <<escVars, clsVars, exVars, conVars, sysVars>>
    \/ GetNoteAttachments /\ UNCHANGED <<escVars, clsVars, exVars, conVars, sysVars>>
    \/ ExportNoteMarkdown /\ UNCHANGED <<escVars, clsVars, exVars, conVars, sysVars>>

SpecService == InitService /\ [][SvcNext]_vars

InitConcurrent == EscIdle /\ ClsIdle /\ ExIdle /\ SvcInit /\ ConInit /\ SysIdle

ConNext ==
    \E t \in Threads :
        \/ Begin(t) /\ UNCHANGED <<escVars, clsVars, exVars, svcVars, sysVars>>
        \/ Spawn(t) /\ UNCHANGED <<escVars, clsVars, exVars, svcVars, sysVars>>
        \/ ProcessExit(t) /\ UNCHANGED <<escVars, clsVars, exVars, svcVars, sysVars>>
        \/ Return(t) /\ UNCHANGED <<escVars, clsVars, exVars, svcVars, sysVars>>

SpecConcurrent == InitConcurrent /\ [][ConNext]_vars

InitTool == EscIdle /\ ClsIdle /\ SvcInit /\ ConIdle /\ McpInit

ToolNext ==
    \/ Tick /\ UNCHANGED <<escVars, svcVars, conVars, sysVars>>
    \/ ToolCall /\ UNCHANGED <<escVars, svcVars, conVars, sysVars>>
    \/ ScriptExit /\ UNCHANGED <<escVars, svcVars, conVars, sysVars>>
    \/ KillOnDone /\ UNCHANGED <<escVars, svcVars, conVars, sysVars>>
    \/ ExitRacesKill /\ UNCHANGED <<escVars, svcVars, conVars, sysVars>>

SpecTool == InitTool /\ [][ToolNext]_vars

InitAttachment == EscIdle /\ ClsIdle /\ ExIdle /\ SvcInit /\ ConIdle /\ AttInit

AttNext ==
    \/ AttStat /\ UNCHANGED <<escVars, clsVars, exVars, svcVars, conVars>>
    \/ AttRead /\ UNCHANGED <<escVars, clsVars, exVars, svcVars, conVars>>
    \/ FileWrite /\ UNCHANGED <<escVars, clsVars, exVars, svcVars, conVars>>

SpecAttachment == InitAttachment /\ [][AttNext]_vars

-----------------------------------------------------------------------------
(* C1: DetectError applies its rules in one fixed order and the first rule *)
(* that matches decides: deadline exceeded, empty diagnostics, app not     *)
(* running, permission denied, note not found, folder not found, and       *)
(* otherwise the original error.                                           *)
C1_FirstMatchWins ==
    detected # NoError =>
        LET timeout == ErrorsIs(execErr, DeadlineExceeded)
            empty == stderr = <<>>
            app == IsAppNotRunningText(stderr)
            perm == IsPermissionText(stderr)
            note == noteNotFoundPattern(stderr)
            folder == folderNotFoundPattern(stderr)
        IN /\ timeout => detected = ErrScriptTimeout
           /\ ~timeout /\ empty => detected = execErr
           /\ ~timeout /\ ~empty /\ app => detected = ErrNotesAppNotRunning
           /\ ~timeout /\ ~empty /\ ~app /\ perm => detected = ErrPermissionDenied
           /\ ~timeout /\ ~empty /\ ~app /\ ~perm /\ note => detected = ErrNoteNotFound
           /\ ~timeout /\ ~empty /\ ~app /\ ~perm /\ ~note /\ folder
                  => detected = ErrFolderNotFound
           /\ ~timeout /\ ~empty /\ ~app /\ ~perm /\ ~note /\ ~folder
                  => detected = execErr

\* a diagnostics text matching both the permission and the note-not-found
\* patterns has been classified as permission denied
C1_Witness ==
    /\ detected = ErrPermissionDenied
    /\ IsPermissionText(stderr)
    /\ noteNotFoundPattern(stderr)

-----------------------------------------------------------------------------
(* C3: for every input s, escape(s) holds no unescaped double quote and no *)
(* single trailing backslash, and decoding it by the interpreter's         *)
(* string-literal rules gives back exactly s.                              *)
C3_EscapeRoundTrip ==
    fmtOp = "escape" =>
        /\ ~HasUnescapedQuote(escaped)
        /\ ~HasDanglingBackslash(escaped)
        /\ Unescape(escaped) = text

\* an input holding a backslash directly before a quote has been escaped
C3_Witness ==
    /\ fmtOp = "escape"
    /\ Contains(text, <<BS, QUOTE>>)
    /\ Len(escaped) = Len(text) + 2

-----------------------------------------------------------------------------
(* C2: whenever a script is still running when the executor's bounded      *)
(* lifetime expires, the subprocess is terminated and Execute returns an   *)
(* error that DetectError classifies as ScriptTimeout.                     *)
C2_ExpiryIsScriptTimeout ==
    (/\ ex.phase = "returned"
     /\ ex.proc = "killed"
     /\ ~ex.cancelled
     /\ detected # NoError) => detected = ErrScriptTimeout

-----------------------------------------------------------------------------
(* Reading a finished call *)

CallerFields == {"title", "content", "query", "folder", "parent", "name"}

\* the caller's string a piece of script was made from, as the Notes
\* application is meant to receive it
SentText(c, from) ==
    CASE from = "title" -> c.title
      [] from = "content" -> ReplaceAll(c.content, <<NL>>, <<"<", "b", "r", ">">>)
      [] from = "query" -> c.query
      [] from = "folder" -> c.folder
      [] from = "parent" -> c.parent
      [] OTHER -> c.name

SearchOps == {"SearchNotesAdvanced", "search_notes_advanced"}

EffectiveScope(c) == IF c.searchIn = "" THEN "title" ELSE c.searchIn

HasFilter(c) == c.folder # <<>> \/ c.from.set \/ c.to.set

\* the four forms of search script, told apart by their collection line
ScriptShape(script) ==
    CASE HasLine(script, "set foundNotes to notes where name contains ") -> "builtin title"
      [] HasLine(script, "set candidateNotes to notes of targetFolder where name contains ")
         \/ HasLine(script, "set candidateNotes to notes where name contains ") -> "filtered title"
      [] HasLine(script, "set allNotes to notes") -> "unfiltered scan"
      [] HasLine(script, "set candidateNotes to notes of targetFolder")
         \/ HasLine(script, "set candidateNotes to notes") -> "pre-filtered"
      [] OTHER -> "other"

Titles(notes) == [i \in DOMAIN notes |-> notes[i].Title]

-----------------------------------------------------------------------------
(* C4: in every script an operation generates, each caller-supplied string *)
(* stands between the template's double quotes, holds no unescaped quote   *)
(* and no dangling backslash, and reads back as the caller's string.       *)
C4_CallerStringsEscaped ==
    \A i \in DOMAIN scripts : \A j \in DOMAIN scripts[i] :
        LET line == scripts[i][j]
        IN \A k \in DOMAIN line :
               (line[k].k = "arg" /\ line[k].from \in CallerFields) =>
                   /\ k > 1 /\ k < Len(line)
                   /\ line[k - 1].k = "q" /\ line[k + 1].k = "q"
                   /\ ~HasUnescapedQuote(line[k].val)
                   /\ ~HasDanglingBackslash(line[k].val)
                   /\ Unescape(line[k].val) = SentText(call, line[k].from)

C4_Witness ==
    /\ call.op = "DeleteNote"
    /\ call.title = <<QUOTE, BS>>
    /\ Len(scripts) = 1
    /\ \E j \in DOMAIN scripts[1] : \E k \in DOMAIN scripts[1][j] :
           scripts[1][j][k].k = "arg" /\ scripts[1][j][k].val = <<BS, QUOTE, BS, BS>>

(* C5: a search whose scope, an empty scope read as title, is not title,   *)
(* body or both returns an error and hands no script to Execute.           *)
C5_InvalidScopeNoExecute ==
    (call.op \in SearchOps /\ EffectiveScope(call) \notin {"title", "body", "both"}) =>
        /\ Len(scripts) = 0
        /\ call.op = "SearchNotesAdvanced" => ret.err # NoError

C5_Witness ==
    /\ call.op = "SearchNotesAdvanced"
    /\ call.searchIn = "invalid"
    /\ call.query = <<QUOTE>>
    /\ ret.err # NoError
    /\ scripts = <<>>

(* C6: the form of the search script is decided by the scope and by the    *)
(* presence of a folder or date filter alone: title gives the built-in     *)
(* query or the filtered title script, body and both give the unfiltered   *)
(* scan or the pre-filtered script.                                        *)
C6_ShapeByScopeAndFilter ==
    (call.op \in SearchOps /\ Len(scripts) = 1) =>
        ScriptShape(scripts[1]) =
            CASE EffectiveScope(call) = "title" /\ ~HasFilter(call) -> "builtin title"
              [] EffectiveScope(call) = "title" /\ HasFilter(call) -> "filtered title"
              [] EffectiveScope(call) # "title" /\ ~HasFilter(call) -> "unfiltered scan"
              [] OTHER -> "pre-filtered"

C6_Witness ==
    /\ call.op = "SearchNotesAdvanced"
    /\ call.searchIn = "both"
    /\ call.folder = <<>> /\ ~call.from.set /\ call.to.set
    /\ Len(scripts) = 1
    /\ ScriptShape(scripts[1]) = "pre-filtered"

(* C7: in a body or both search with a folder or date filter, the script   *)
(* examines the body only of notes that are in the named folder and whose  *)
(* modification date passed the date checks.                               *)
C7_BodyReadOnlyPrefiltered ==
    (/\ call.op \in SearchOps
     /\ EffectiveScope(call) \in {"body", "both"}
     /\ HasFilter(call)
     /\ Len(scripts) = 1) =>
        \A i \in BodyReads(scripts[1], call.env.store) :
            LET n == call.env.store.notes[i]
            IN /\ call.folder # <<>> => n.folder = call.folder
               /\ call.from.set => ~(n.mod < call.from.wall)
               /\ call.to.set => ~(n.mod > call.to.wall)

C7_Witness ==
    /\ call.op = "SearchNotesAdvanced"
    /\ call.searchIn = "body"
    /\ call.folder = <<QUOTE>> /\ call.from.set /\ call.to.set
    /\ Len(scripts) = 1
    /\ BodyReads(scripts[1], call.env.store) = {1}
    /\ call.env.store.notes[2].mod > call.to.wall

(* C8: GetFolderHierarchy returns a tree equal to the record the bridge    *)
(* holds: name, shared flag, note count and ordered children at every      *)
(* depth.                                                                  *)
C8_TreeSameShape ==
    (call.op = "GetFolderHierarchy" /\ call.env.err = NoError) =>
        ret.tree = call.env.tree

(* C9: when the output of a search holds M non-empty entries, the first    *)
(* min(M, 100) are returned and the total reported with them is M, so that *)
(* the notice is shown exactly when M exceeds 100.                         *)
C9_TrueTotalReported ==
    (call.op = "search_notes_advanced" /\ ret.message = "results") =>
        LET M == Len(TrimmedNonEmpty(Split(TrimSpace(Stdout(scripts[1], call.env)), Delimiter)))
        IN /\ Len(ret.notes) = Min(M, 100)
           /\ ret.total = M
           /\ ret.notice = (M > 100)

(* C10: every operation that returns a list of names returns each name of  *)
(* the account that the operation selects as one entry, a name with commas *)
(* included.                                                               *)
C10_CommaNamesStayWhole ==
    (/\ call.op \in {"SearchNotes", "SearchNotesAdvanced", "ListFolders",
                     "GetNotesInFolder", "GetRecentNotes"}
     /\ ~call.env.useRaw
     /\ ret.err = NoError
     /\ Len(scripts) = 1) =>
        LET store == call.env.store
            all == NamesOf(store, Indexes(store.notes))
            inFolder == NamesOf(store, SelectSeq(Indexes(store.notes),
                            LAMBDA i : store.notes[i].folder = call.folder))
        IN CASE call.op = "ListFolders" -> ret.names = store.folders
             [] call.op = "GetRecentNotes" ->
                    Titles(ret.notes) = IF call.limit > 0 THEN Take(all, call.limit) ELSE all
             [] call.op = "GetNotesInFolder" -> Titles(ret.notes) = inFolder
             [] OTHER -> Titles(ret.notes) = NamesOf(store, Collected(scripts[1], store))

(* C11: every Note an operation returns has Created equal to CreationDate  *)
(* and Modified equal to ModificationDate.                                 *)
C11_TimestampAliasesEqual ==
    \A i \in DOMAIN ret.notes :
        /\ ret.notes[i].Created = ret.notes[i].CreationDate
        /\ ret.notes[i].Modified = ret.notes[i].ModificationDate

\* a record holds a date literal that is not of the layout
HasMalformedDate(record) ==
    \E i \in DOMAIN record :
        /\ record[i].form = "date"
        /\ record[i].label \in {"creation date", "modification date"}
        /\ parseAppleScriptDate(record[i].val).err # NoError

(* C12: when the bridge prints a date that is not of the layout, the       *)
(* operation that parsed it, GetNoteMetadata or GetNoteAttachments,        *)
(* returns an error: no Note or Attachment is returned in its place.       *)
C12_MalformedDateIsError ==
    /\ (/\ call.op = "GetNoteMetadata"
        /\ call.env.err = NoError
        /\ HasMalformedDate(call.env.raw)) => ret.err # NoError
    /\ (/\ call.op = "GetNoteAttachments"
        /\ call.env.err = NoError
        /\ \E l \in DOMAIN call.env.raw : HasMalformedDate(call.env.raw[l])) =>
            ret.err # NoError

\* the end of the lifetime Execute enforces on the call in progress
EnforcedLimit ==
    IF ex.parent = NoDeadline THEN ex.start + ex.timeout
    ELSE Min(ex.start + ex.timeout, ex.parent)

(* C13: in every Execute call the subprocess is never running later than   *)
(* the earlier of the call's start plus the executor's configured duration *)
(* and the deadline of the caller's context.                               *)
C13_LifetimeIsSmallerOfTwo ==
    ex.proc = "running" => clock <= EnforcedLimit

C13_Witness ==
    /\ ex.proc = "killed"
    /\ ~ex.cancelled
    /\ ex.parent # NoDeadline
    /\ ex.parent < ex.start + ex.timeout
    /\ ex.start < ex.parent
    /\ clock = ex.parent

\* the caller's context was cancelled or its deadline has passed
CallerDone == ex.cancelled \/ (ex.parent # NoDeadline /\ clock >= ex.parent)

(* C14: when the caller's context is cancelled or its deadline passes      *)
(* while a script is running, the subprocess is eventually terminated and  *)
(* Execute returns an error; the call never ends without an error.         *)
C14_CancelTerminates ==
    /\ (ex.proc = "running" /\ CallerDone)
           ~> (ex.phase = "returned" /\ ex.proc # "running" /\ ex.err # NoError)
    /\ [][(ex.proc = "running" /\ CallerDone /\ ex'.phase = "returned")
             => ex'.err # NoError]_vars

C14_Witness ==
    /\ ex.phase = "returned"
    /\ ex.proc = "killed"
    /\ ex.cancelled
    /\ clock < ex.deadline
    /\ clock < ex.start + ex.need
    /\ ex.err # NoError

(* C15: DetectError returns ScriptTimeout whenever the execution error is  *)
(* a deadline-exceeded signal or a cancellation signal, whatever the       *)
(* diagnostics text is.                                                    *)
C15_DeadlineOrCancelIsTimeout ==
    (/\ detected # NoError
     /\ (ErrorsIs(execErr, DeadlineExceeded) \/ ErrorsIs(execErr, Canceled)))
        => detected = ErrScriptTimeout

(* C15, amended: DetectError returns ScriptTimeout whenever the execution  *)
(* error is a deadline-exceeded signal, whatever the diagnostics text is;  *)
(* a cancellation signal is never classified as ScriptTimeout, and is      *)
(* returned as it is when the diagnostics text is empty.                   *)
C15_DeadlineAloneIsTimeout ==
    detected # NoError =>
        /\ ErrorsIs(execErr, DeadlineExceeded) => detected = ErrScriptTimeout
        /\ ErrorsIs(execErr, Canceled) => detected # ErrScriptTimeout
        /\ (ErrorsIs(execErr, Canceled) /\ stderr = <<>>) => detected = execErr

C15_Witness ==
    /\ detected = ErrScriptTimeout
    /\ execErr = DeadlineExceeded
    /\ noteNotFoundPattern(stderr)
    /\ IsPermissionText(stderr)

\* the closed taxonomy of error kinds
Kinds ==
    {ErrNoteNotFound, ErrFolderNotFound, ErrNotesAppNotRunning, ErrPermissionDenied,
     ErrScriptTimeout, ErrInvalidInput}

\* the operations of the service, the tool handler apart
ServiceCall == call.op \notin {"none", "search_notes_advanced"}

(* C16: when a script of a service operation fails, the error the          *)
(* operation returns is of the kind DetectError chose for the failure,     *)
(* through every wrapping the operation adds, and of no other kind.        *)
C16_ReturnedKindIsDetectedKind ==
    (ServiceCall /\ call.env.err # NoError /\ Len(scripts) >= 1) =>
        LET chosen == DetectError(call.env.stderr, call.env.err)
        IN /\ ret.err # NoError
           /\ \A k \in Kinds : ErrorsIs(ret.err, k) <=> ErrorsIs(chosen, k)

C16_Witness ==
    /\ call.op = "ExportNoteMarkdown"
    /\ call.env.err = ExitStatus1
    /\ Len(scripts) = 1
    /\ Len(ret.err) = 3
    /\ ErrorsIs(ret.err, ErrNoteNotFound)
    /\ ~ErrorsIs(ret.err, ErrPermissionDenied)

(* C17: the error SearchNotesAdvanced returns for a scope that is not      *)
(* title, body or both is of kind InvalidInput, and the tool reports it as *)
(* invalid input.                                                          *)
C17_InvalidScopeIsInvalidInput ==
    /\ (/\ call.op = "SearchNotesAdvanced"
        /\ EffectiveScope(call) \notin {"title", "body", "both"})
           => ErrorsIs(ret.err, ErrInvalidInput)
    /\ (/\ call.op = "search_notes_advanced"
        /\ EffectiveScope(call) \notin {"title", "body", "both"}
        /\ ret.err = NoError)
           => ret.message = "Invalid input"

(* C18: no operation retries: once an Execute call made for an operation  *)
(* has returned an error, the operation hands no further script to Execute *)
(* and returns an error to its caller.                                     *)
C18_NoRetryAfterError ==
    (call.op # "none" /\ call.env.err # NoError /\ Len(scripts) >= 1) =>
        /\ Len(scripts) = 1
        /\ ServiceCall => ret.err # NoError
        /\ ~ServiceCall => ret.message \notin {"", "results", "No notes found"}
        /\ ret.notes = <<>> /\ ret.names = <<>> /\ ret.out = <<>>

C18_Witness ==
    /\ call.op = "ExportNoteMarkdown"
    /\ call.env.err = SignalKilled
    /\ call.env.stderr = <<>>
    /\ Len(scripts) = 1
    /\ ret.err = <<"failed to export note as markdown", "failed to get note content">>
                    \o SignalKilled

\* a call in progress or finished carries what its operation gives alone
AsAlone(t) ==
    LET th == threads[t]
        alone == OpOf(th.call)
    IN /\ th.pc # "idle" => th.script = alone.scripts[1]
       /\ th.pc = "returned" => th.ret = alone.ret

(* C19: operations called concurrently on one service do not interfere:    *)
(* each call has the script and returns the result it has when run alone,  *)
(* and no field of the service or of its executor is written after         *)
(* construction.                                                           *)
C19_ConcurrentCallsIndependent ==
    /\ [](\A t \in Threads : AsAlone(t))
    /\ [][service' = service]_vars

C19_Witness ==
    /\ threads[1].pc = "returned"
    /\ threads[2].pc = "exited"
    /\ threads[1].call.op = "GetNoteContent"
    /\ threads[2].call.op = "SearchNotes"
    /\ threads[1].ret.out = <<"b">> \o <<NL>>
    /\ buffers[1] # buffers[2]
    /\ buffers[2].stdout # <<>>

(* C20: after a successful CreateNote a second script has fetched the      *)
(* metadata record of the created note, and the returned Note's identifier *)
(* is the record's, never a value generated locally.                       *)
C20_CreateNoteFetchesMetadata ==
    (call.op = "CreateNote" /\ ret.err = NoError) =>
        /\ Len(scripts) = 2
        /\ scripts[1] = CreateNoteScript(call.title, call.content)
        /\ scripts[2] = GetNoteMetadataScript(call.title)
        /\ Len(ret.notes) = 1
        /\ ret.notes[1].ID # FormatMillis(call.env.now)

(* C21: every Note of a SearchNotes result carries a non-empty identifier  *)
(* and the timestamps of its own metadata record, so two notes of one      *)
(* result never share an identifier; the content of each stays empty.      *)
C21_SearchNotesOwnMetadata ==
    (call.op = "SearchNotes" /\ ret.err = NoError) =>
        /\ \A i \in DOMAIN ret.notes :
               /\ ret.notes[i].ID # <<>>
               /\ ret.notes[i].Content = <<>>
               /\ ret.notes[i].CreationDate # ZeroTime
        /\ \A i, j \in DOMAIN ret.notes : i # j => ret.notes[i].ID # ret.notes[j].ID

(* C22: with NOTES_MCP_TIMEOUT set to a positive integer N an operation    *)
(* may run for N seconds before it is timed out, so a script that needs    *)
(* less than N seconds completes; unset, non-numeric or not positive, the  *)
(* limit is 30 seconds.                                                    *)
C22_OperationRunsUpToLimit ==
    (ex.phase = "returned" /\ ex.parent # NoDeadline) =>
        LET N == getOperationTimeout(environ)
        IN /\ (ex.need < N /\ ex.exit = 0) => ex.err = NoError
           /\ ex.proc = "killed" => clock >= ex.start + N

\* the lines of a script that test the title, and those that test the date
TitlePredicateLines(script) ==
    {i \in DOMAIN script :
        \/ Starts(script[i], "set candidateNotes to notes of targetFolder where name contains ")
        \/ Starts(script[i], "set candidateNotes to notes where name contains ")
        \/ Starts(script[i], "if name of n contains ")}

DateCheckLines(script) ==
    {i \in DOMAIN script :
        \/ Starts(script[i], "if modification date of n < date ")
        \/ Starts(script[i], "if modification date of n > date ")}

CollectLines(script) == {i \in DOMAIN script : IsAppend(script[i])}

FilteredTitleSearch ==
    /\ call.op \in SearchOps
    /\ EffectiveScope(call) = "title"
    /\ HasFilter(call)
    /\ Len(scripts) = 1

(* C23: the script of a title search with a folder or date filter narrows  *)
(* to the folder's notes (or to all notes), then rejects by date, and only *)
(* then tests the title, collecting the matches.                           *)
C23_TitleTestedAfterDates ==
    FilteredTitleSearch =>
        /\ TitlePredicateLines(scripts[1]) # {}
        /\ \A d \in DateCheckLines(scripts[1]) : \A p \in TitlePredicateLines(scripts[1]) :
               d < p

(* C23, as the code has it: the title is tested by the line that selects   *)
(* the candidates, in the named folder when one is given; the date checks  *)
(* follow inside the loop and the name is collected after them with no     *)
(* further test.                                                           *)
C23_TitleNarrowsCandidates ==
    FilteredTitleSearch =>
        LET script == scripts[1]
            folderLine == LineIdx(script, "set targetFolder to folder ")
            loopLine == LineIdx(script, "repeat with n in candidateNotes")
        IN /\ \E p \in DOMAIN script :
                  /\ TitlePredicateLines(script) = {p}
                  /\ Literal(script[p], 1) = call.query
                  /\ p < loopLine
                  /\ (call.folder # <<>>) =
                         Starts(script[p], "set candidateNotes to notes of targetFolder where name contains ")
                  /\ call.folder # <<>> =>
                         /\ folderLine # 0 /\ folderLine < p
                         /\ Literal(script[folderLine], 1) = call.folder
                  /\ call.folder = <<>> =>
                         /\ folderLine = 0
                         /\ Starts(script[p], "set candidateNotes to notes where name contains ")
           /\ \E c \in DOMAIN script :
                  /\ CollectLines(script) = {c}
                  /\ \A d \in DateCheckLines(script) : loopLine < d /\ d < c
           /\ Cardinality(DateCheckLines(script)) =
                  (IF call.from.set THEN 1 ELSE 0) + (IF call.to.set THEN 1 ELSE 0)

C23_Witness ==
    /\ call.op = "SearchNotesAdvanced"
    /\ call.searchIn = "title"
    /\ call.folder # <<>> /\ call.from.set /\ call.to.set
    /\ Len(scripts) = 1
    /\ Cardinality(DateCheckLines(scripts[1])) = 2
    /\ Len(Candidates(scripts[1], call.env.store)) = 2
    /\ Len(Collected(scripts[1], call.env.store)) = 1

\* a note's modification time, on a whole second, against an instant
Earlier(mod, t) == mod < t.wall \/ (mod = t.wall /\ 0 < t.nsec)
Later(mod, t) == mod > t.wall

InRange(mod, from, to) ==
    /\ from.set => ~Earlier(mod, from)
    /\ to.set => ~Later(mod, to)

Matches(n, c) ==
    CASE EffectiveScope(c) = "title" -> Contains(n.name, c.query)
      [] EffectiveScope(c) = "body" -> Contains(n.body, c.query)
      [] OTHER -> Contains(n.name, c.query) \/ Contains(n.body, c.query)

(* C24: in every filtered search a note of the folder that matches the     *)
(* query is kept exactly when its modification time is not earlier than    *)
(* from and not later than to; an omitted endpoint rejects nothing.        *)
C24_KeptIffInRange ==
    (/\ call.op \in SearchOps
     /\ EffectiveScope(call) \in {"title", "body", "both"}
     /\ HasFilter(call)
     /\ Len(scripts) = 1) =>
        LET store == call.env.store
            kept == Collected(scripts[1], store)
        IN \A i \in DOMAIN store.notes :
               LET n == store.notes[i]
               IN (\E k \in DOMAIN kept : kept[k] = i) =
                      /\ call.folder # <<>> => n.folder = call.folder
                      /\ Matches(n, call)
                      /\ InRange(n.mod, call.from, call.to)

\* The entries of a delimiter-joined list, stated without the parser's
\* scan: a delimiter starts at every third bar of a run of bars
RunStart(s, p) ==
    CHOOSE q \in 1..p : (\A i \in q..p : s[i] = "|") /\ (q = 1 \/ s[q - 1] # "|")

DelimiterStarts(s) ==
    {p \in 1..(Len(s) - 2) :
        /\ s[p] = "|" /\ s[p + 1] = "|" /\ s[p + 2] = "|"
        /\ (p - RunStart(s, p)) % 3 = 0}

Segments(s) ==
    LET ds == DelimiterStarts(s)
        k == Cardinality(ds)
        nth(j) == CHOOSE p \in ds : Cardinality({q \in ds : q < p}) = j - 1
        lo(j) == IF j = 1 THEN 1 ELSE nth(j - 1) + 3
        hi(j) == IF j = k + 1 THEN Len(s) ELSE nth(j) - 1
    IN [j \in 1..(k + 1) |-> SubSeq(s, lo(j), hi(j))]

Trimmed(s) ==
    LET solid == {i \in DOMAIN s : ~IsSpace(s[i])}
    IN IF solid = {} THEN <<>>
       ELSE SubSeq(s, CHOOSE i \in solid : \A j \in solid : i <= j,
                      CHOOSE i \in solid : \A j \in solid : j <= i)

Entries(out) ==
    LET segs == Segments(Trimmed(out))
    IN SelectSeq([j \in DOMAIN segs |-> Trimmed(segs[j])], LAMBDA e : e # <<>>)

ListParsed ==
    /\ call.op = "SearchNotesAdvanced"
    /\ call.env.err = NoError
    /\ Len(scripts) = 1

(* C25: for every output of the bridge the list parser returns exactly the *)
(* non-empty trimmed segments between the delimiters, in order; a comma    *)
(* never splits a segment and empty output gives an empty list, no error.  *)
C25_ExactlyTheSegments ==
    ListParsed =>
        /\ ret.err = NoError
        /\ Titles(ret.notes) = Entries(Stdout(scripts[1], call.env))

(* C25, as the code has it: the parser returns the non-empty trimmed       *)
(* segments in order up to the hundredth and drops the rest.               *)
C25_SegmentsUpToLimit ==
    ListParsed =>
        /\ ret.err = NoError
        /\ Titles(ret.notes) = Take(Entries(Stdout(scripts[1], call.env)), maxResults)

C25_Witness ==
    /\ ListParsed
    /\ call.env.useRaw
    /\ call.env.raw = <<SP, ",", "|", "|", "|", "|", "a", ",", SP, "a", "|", "|", "|", NL>>
    /\ Titles(ret.notes) = << <<",">>, <<"|", "a", ",", SP, "a">> >>

\* what one character of the text becomes in a note body
BodyImage(c) ==
    CASE c = BS -> <<BS, BS>>
      [] c = QUOTE -> <<BS, QUOTE>>
      [] c = NL -> <<"<", "b", "r", ">">>
      [] OTHER -> <<c>>

RECURSIVE BodyImages(_)
BodyImages(s) == IF s = <<>> THEN <<>> ELSE BodyImage(s[1]) \o BodyImages(Tail(s))

Unresolved(line, store) ==
    \/ /\ Starts(line, "set parentFld to folder ") \/ Starts(line, "set targetFld to folder ")
       /\ \A f \in DOMAIN store.folders : store.folders[f] # Literal(line, 1)
    \/ /\ Starts(line, "set theNote to note ")
       /\ \A n \in DOMAIN store.notes : store.notes[n].name # Literal(line, 1)

IsCommand(line) ==
    \/ Starts(line, "make new folder with properties {name:")
    \/ Starts(line, "move theNote to targetFld")
    \/ Starts(line, "move result to parentFld")

CommandsRun(script, store) ==
    {i \in DOMAIN script :
        /\ IsCommand(script[i])
        /\ \A j \in 1..i : ~Unresolved(script[j], store)}

Lookups(script) ==
    {i \in DOMAIN script :
        \/ Starts(script[i], "set parentFld to folder ")
        \/ Starts(script[i], "set targetFld to folder ")
        \/ Starts(script[i], "set theNote to note ")}

HasFolder(store, name) == \E f \in DOMAIN store.folders : store.folders[f] = name
HasNote(store, name) == \E n \in DOMAIN store.notes : store.notes[n].name = name

(* C27: the scripts of CreateFolder and MoveNote look up every named       *)
(* entity before the creating or moving command, so that nothing is        *)
(* created or moved when one of them does not exist; an empty parent name  *)
(* gives creation at the root with no lookup.                              *)
C27_ResolveBeforeCommand ==
    (call.op \in {"CreateFolder", "MoveNote"} /\ Len(scripts) = 1) =>
        LET script == scripts[1]
            store == call.env.store
            commands == {i \in DOMAIN script : IsCommand(script[i])}
            known == IF call.op = "CreateFolder"
                     THEN call.parent = <<>> \/ HasFolder(store, call.parent)
                     ELSE HasFolder(store, call.folder) /\ HasNote(store, call.title)
        IN /\ Cardinality(commands) = 1
           /\ \A l \in Lookups(script) : \A c \in commands : l < c
           /\ Cardinality(Lookups(script)) =
                  (IF call.op = "MoveNote" THEN 2 ELSE IF call.parent = <<>> THEN 0 ELSE 1)
           /\ CommandsRun(script, store) = (IF known THEN commands ELSE {})
           /\ call.op = "CreateFolder" =>
                  \A c \in commands :
                      /\ Literal(script[c], 1) = call.name
                      /\ (script[c][Len(script[c])] = L(", container:parentFld}")[1])
                             = (call.parent # <<>>)
                      /\ call.parent # <<>> =>
                             \A l \in Lookups(script) : Literal(script[l], 1) = call.parent

\* a folder asked for under a parent the account does not hold
C27_Witness ==
    /\ call.op = "CreateFolder"
    /\ call.parent # <<>>
    /\ ~HasFolder(call.env.store, call.parent)
    /\ Len(scripts) = 1
    /\ Cardinality(Lookups(scripts[1])) = 1
    /\ CommandsRun(scripts[1], call.env.store) = {}

(* C28: GetAttachmentContent never returns more than maxSize bytes: a file *)
(* larger than maxSize gives an error and no content, a file of exactly    *)
(* maxSize bytes is returned in full, also when another process changes    *)
(* the file between the size check and the read.                           *)
C28_NeverMoreThanMaxSize ==
    att.pc = "done" =>
        /\ att.err = NoError => att.content <= att.maxSize
        /\ att.err # NoError => att.content = 0
        /\ att.statSize > att.maxSize => att.err # NoError

EmphasisNames == {<<"b">>, <<"s", "t", "r", "o", "n", "g">>, <<"i">>, <<"e", "m">>}

(* C29: in the Markdown converter every <br> becomes a line break and only *)
(* b, strong, i and em elements become emphasis markers: a body with none  *)
(* of these elements gives no marker, and a <br> between two letters gives *)
(* a line break between them, whatever elements surround it.               *)
C29_BreakIsNeverEmphasis ==
    (call.op = "ExportNoteMarkdown" /\ call.env.useRaw /\ ret.err = NoError) =>
        LET html == call.env.raw
        IN /\ (\A k \in DOMAIN html : ~(html[k].name \in EmphasisNames /\ ~html[k].close))
                  => ~Contains(ret.out, <<"*">>)
           /\ \A k \in 2..(Len(html) - 1) :
                  (html[k - 1] = Ch("a") /\ html[k] = Open(<<"b", "r">>) /\ html[k + 1] = Ch("a"))
                      => Contains(ret.out, <<"a", NL, "a">>)

\* the value written for a field of a record, empty when the field is absent
Written(record, label) ==
    LET at == {i \in DOMAIN record : record[i].label = label}
    IN IF at = {} THEN <<>> ELSE record[Leftmost(at)].val

(* C30: field extraction returns for each named field the value written    *)
(* for it in the record, whatever the order of the fields and the text     *)
(* inside other fields' values; an absent field gives the empty value and  *)
(* no error.                                                               *)
C30_FieldValueAsWritten ==
    (call.op = "GetNoteMetadata" /\ call.env.useRaw /\ call.env.err = NoError) =>
        /\ ret.err = NoError
        /\ Len(ret.notes) = 1
        /\ ret.notes[1].ID = Written(call.env.raw, "id")
        /\ ret.notes[1].Folder = Written(call.env.raw, "container")
        /\ ret.notes[1].Shared = (Written(call.env.raw, "shared") = <<"true">>)
        /\ ret.notes[1].PasswordProtected =
               (Written(call.env.raw, "password protected") = <<"true">>)

====
